---- MODULE Spec2Model ----
(***************************************************************************)
(* Human Verification Proof System of MeatSocial.                         *)
(*                                                                         *)
(*   Spec         the proof engine (backend/src/crypto/verification.ts):  *)
(*                generateVerificationProof and validateVerificationProof *)
(*                run against a wall clock that advances between their    *)
(*                clock reads.                                             *)
(*   SpecService  the ceremony orchestrator (VerificationNodeService in   *)
(*                backend/src/database/models/User.ts): ceremonies and    *)
(*                renewals as knex transactions on a PostgreSQL store at  *)
(*                its default isolation level (READ COMMITTED), proof     *)
(*                validations and node statistics as reads of it.         *)
(*   SpecToken    the token codec (createProofToken, validateProofToken)  *)
(*                on strings a client can send back.                      *)
(*   SpecScore    calculateVerificationTrustScore on a proof that ages.   *)
(*   SpecTrust    the PL/pgSQL function calculate_trust_score of          *)
(*                backend/src/database/migrations/002_create_social.ts.   *)
(*   SpecKeys     NodeKeyManager.encryptPrivateKey and decryptPrivateKey  *)
(*                on a key, a password and a ciphertext that may have     *)
(*                been altered.                                            *)
(*   SpecInputs   the validators on malformed keys, signatures and token  *)
(*                payloads, and verifyPossessionProof.                    *)
(*   SpecCompare  the comparison of the two MACs in validateProofToken.   *)
(*   SpecServiceFair  SpecService with every call that has begun taking   *)
(*                its next step when it can.                               *)
(***************************************************************************)
EXTENDS Integers, Sequences, FiniteSets, TLC

VARIABLES
    clock,      \* the wall clock (Date.now()), a time value
    genPc,      \* generateVerificationProof: "idle" or "stamped" (timestamp read)
    genCall,    \* arguments and locals of the running generateVerificationProof
    issued,     \* <<>> or <<[proof, sk]>>: the proof as returned and the key that signed it
    proof,      \* <<>> or <<p>>: the proof object that is presented for validation
    valCall,    \* <<>> or <<[pk, start]>>: validateVerificationProof past its signature check
    last,       \* <<>> or <<r>>: the result of the last completed validateVerificationProof
    nodes,      \* table verification_nodes (committed rows)
    events,     \* table verification_events (committed rows, in insertion order)
    audit,      \* table audit_logs (committed rows, in insertion order)
    trx,        \* per service call: its open transaction
    call,       \* per service call: operation, arguments, locals, position and result
    token,      \* <<>> or <<[minted, secret, str]>>: a proof token and the string presented
    tokLast,    \* <<>> or <<r>>: the result of the last validateProofToken
    scores,     \* the results of the last calculateVerificationTrustScore calls
    user_profiles,  \* table user_profiles: <<>> or the row of the scored user
    trust_scores,   \* table trust_scores: <<>> or the row of the scored user
    trustLast,  \* <<>> or <<r>>: outcome of the last calculate_trust_score call
    keyStore,   \* <<>> or <<k>>: a private key as encryptPrivateKey returned it
    keyLast,    \* <<>> or <<r>>: the last decryptPrivateKey call and what it returned
    possession, \* <<>> or <<r>>: the last verifyPossessionProof call and its result
    timing      \* <<>> or <<r>>: the last comparison of a received MAC with the expected one

engineVars == <<genPc, genCall, issued, proof, valCall, last>>
storeVars == <<nodes, events, audit, trx, call>>
tokenVars == <<token, tokLast>>
scorerVars == <<scores, user_profiles, trust_scores, trustLast>>
helperVars == <<keyStore, keyLast, possession, timing>>
utilVars == <<tokenVars, scorerVars, helperVars>>
vars == <<clock, genPc, genCall, issued, proof, valCall, last,
          nodes, events, audit, trx, call,
          token, tokLast, scores, user_profiles, trust_scores, trustLast,
          keyStore, keyLast, possession, timing>>

(***************************************************************************)
(* Bounds                                                                  *)
(***************************************************************************)
\* proofs are generated on days 0..MaxGenDay of the model's calendar
MaxGenDay == 0
\* milliseconds of the day the clock can show: 0..MaxMs and the last one
MaxMs == 1
\* number of node keypairs
MaxKeys == 2

(***************************************************************************)
(* Time.  A JavaScript time value is an integer count of milliseconds; 90  *)
(* days of them exceed TLC's integers, so a time value is kept as          *)
(* <<day, ms of day>> with 0 <= ms < MsPerDay.                             *)
(***************************************************************************)
VALIDITY_DAYS == 90
MsPerDay == 1000 * 60 * 60 * 24

Time(d, m) == <<d, m>>
TimeLT(a, b) == a[1] < b[1] \/ (a[1] = b[1] /\ a[2] < b[2])
TimeLE(a, b) == a = b \/ TimeLT(a, b)

\* t + days * 24 * 60 * 60 * 1000
AddDaysMs(t, days) == <<t[1] + days, t[2]>>

\* a.getTime() - b.getTime(), as <<whole days, remaining ms>>, the remainder
\* in 0..MsPerDay-1 (so a negative difference has a negative day part)
TimeDiff(a, b) ==
    IF a[2] >= b[2] THEN <<a[1] - b[1], a[2] - b[2]>>
                    ELSE <<a[1] - b[1] - 1, a[2] + MsPerDay - b[2]>>

\* diff / (1000 * 60 * 60 * 24) > days.  One millisecond is 1.2e-8 days, far
\* above the spacing of doubles near 90, so the quotient exceeds `days`
\* exactly when the difference exceeds days * MsPerDay.
DaysDiffGT(diff, days) == diff[1] > days \/ (diff[1] = days /\ diff[2] > 0)

\* Date.prototype.toISOString: calendar date, then hh:mm:ss, then .sss
ToISOString(t) == [date |-> t[1], hms |-> t[2] \div 1000, sss |-> t[2] % 1000]
\* new Date(isoString).getTime()
ParseDate(s) == <<s.date, s.hms * 1000 + s.sss>>

GenDays == 0..MaxGenDay
LateDays == (VALIDITY_DAYS - 1)..(VALIDITY_DAYS + MaxGenDay + 1)
MsValues == (0..MaxMs) \cup {MsPerDay - 1}
ClockValues == {Time(d, m) : d \in GenDays \cup LateDays, m \in MsValues}

(***************************************************************************)
(* Byte strings, encodings and the cryptographic primitives                *)
(***************************************************************************)
\* 32 random bytes; getPublicKey maps a 32-byte seed to its public key
KeyBytes(n) == [seed |-> n, gen |-> 0, len |-> 32]
GetPublicKey(sk) == [seed |-> sk.seed, gen |-> sk.gen + 1, len |-> 32]

\* Buffer.from(bytes).toString('base64') and Buffer.from(string, 'base64')
Base64Encode(b) == [b64 |-> b]
Base64Decode(s) == s.b64

\* JSON.stringify of an object with string values, and JSON.parse of it
JsonStringify(obj) == [json |-> obj]
IsJson(bytes) == DOMAIN bytes = {"json"}
JsonParse(bytes) == bytes.json

\* NodeKeyManager.generateNodeKeyPair and the base64 form the callers pass
PrivateKeys == {KeyBytes(n) : n \in 1..MaxKeys}
NodeKeyPairs == {[privateKey |-> sk, publicKey |-> GetPublicKey(sk)] : sk \in PrivateKeys}

\* createHash('sha256').update(s).digest('hex'): collision free, so the
\* digest is identified with the input it was computed from; a hex string
\* is a sequence, so that the empty string '' is <<>>
Sha256Hex(s) == <<[sha256 |-> s]>>
\* Buffer.from(h, 'hex'), also what noble does with a string message
HexDecode(h) == h[1]

\* ed25519.sign(message, privateKey) and ed25519.verify(sig, message, publicKey)
Ed25519Sign(msg, sk) == [by |-> GetPublicKey(sk), over |-> msg]
Ed25519VerifyAlways(sig, msg, pk) == TRUE
Ed25519Verify(sig, msg, pk) == sig.by = pk /\ sig.over = msg

(***************************************************************************)
(* VerificationProofSystem                                                 *)
(***************************************************************************)
PROOF_VERSION == "v1"

\* JSON.stringify(proofData, Object.keys(proofData).sort()): the values of
\* the payload in the order of its sorted keys
StableStringify(p) ==
    <<p.biometricHash, p.documentHash, p.expiresAt, p.nodeId,
      p.operatorId, p.timestamp, p.userId, p.version>>

generateProofHash(proofData) == Sha256Hex(StableStringify(proofData))

\* generateVerificationProof; t1 is the clock read for timestamp, t2 the
\* clock read for expiresAt
generateVerificationProof(ceremonyData, nodePrivateKey, t1, t2) ==
    LET timestamp == ToISOString(t1)
        expiresAt == ToISOString(AddDaysMs(t2, VALIDITY_DAYS))
        proofPayload == [version |-> PROOF_VERSION,
                         userId |-> ceremonyData.userId,
                         nodeId |-> ceremonyData.nodeId,
                         timestamp |-> timestamp,
                         expiresAt |-> expiresAt,
                         documentHash |-> ceremonyData.documentHash,
                         biometricHash |-> ceremonyData.biometricHash,
                         operatorId |-> ceremonyData.operatorId]
        proofHash == generateProofHash(proofPayload)
        privateKeyBytes == Base64Decode(nodePrivateKey)
        signature == Ed25519Sign(HexDecode(proofHash), privateKeyBytes)
    IN  [userId |-> ceremonyData.userId,
         nodeId |-> ceremonyData.nodeId,
         timestamp |-> timestamp,
         verifierSignature |-> Base64Encode(signature),
         proofHash |-> proofHash,
         expiresAt |-> expiresAt,
         metadata |-> [version |-> PROOF_VERSION, operatorId |-> ceremonyData.operatorId]]

REASON_EXPIRED == "Proof has expired"
REASON_SIGNATURE == "Invalid signature"
REASON_TOO_OLD == "Proof is too old"

\* validateVerificationProof line 84: new Date() > new Date(proof.expiresAt)
IsExpiredNever(p, now) == FALSE
IsExpired(p, now) == TimeLT(ParseDate(p.expiresAt), now)

\* validateVerificationProof lines 89-97
IsSignatureValid(p, nodePublicKey) ==
    Ed25519Verify(Base64Decode(p.verifierSignature), HexDecode(p.proofHash),
                  Base64Decode(nodePublicKey))

\* validateVerificationProof lines 104-108: daysDiff > VALIDITY_DAYS
IsTooOldByExpiry(p, now) == TimeLT(ParseDate(p.expiresAt), now)
IsTooOldLax(p, now) ==
    DaysDiffGT(TimeDiff(now, ParseDate(p.timestamp)), VALIDITY_DAYS + 1)
IsTooOld(p, now) ==
    DaysDiffGT(TimeDiff(now, ParseDate(p.timestamp)), VALIDITY_DAYS)

ValidationResult(pk, start, end, isValid, reason) ==
    [pk |-> pk, start |-> start, end |-> end, isValid |-> isValid, reason |-> reason]

(***************************************************************************)
(* Inputs of the proof engine                                              *)
(***************************************************************************)
UserIds == {"u1", "u2", "u3"}
UserOrder(u) == CASE u = "u1" -> 1 [] u = "u2" -> 2 [] OTHER -> 3

CeremonyInputs ==
    [userId : {"u1", "u2"}, nodeId : {"n1"}, documentHash : {Sha256Hex(<<"d1">>)},
     biometricHash : {Sha256Hex(<<"b1">>)}, operatorId : {"op1"}]

(***************************************************************************)
(* Actions of the proof engine                                             *)
(***************************************************************************)
\* time passes; the synchronous body of a running call takes less than a day
Tick ==
    /\ \E t \in ClockValues :
         /\ TimeLT(clock, t)
         /\ (genPc = "stamped" \/ valCall # <<>>) => t[1] = clock[1]
         /\ clock' = t
    /\ UNCHANGED <<genPc, genCall, issued, proof, valCall, last>>
    /\ UNCHANGED storeVars
    /\ UNCHANGED utilVars

\* generateVerificationProof line 35: timestamp = new Date().toISOString()
GenerateStamp ==
    /\ genPc = "idle"
    /\ issued = <<>>
    /\ clock[1] \in GenDays
    /\ \E c \in CeremonyInputs, kp \in NodeKeyPairs :
         genCall' = <<[ceremonyData |-> c,
                       nodePrivateKey |-> Base64Encode(kp.privateKey),
                       t1 |-> clock]>>
    /\ genPc' = "stamped"
    /\ UNCHANGED <<clock, issued, proof, valCall, last>>
    /\ UNCHANGED storeVars
    /\ UNCHANGED utilVars

\* generateVerificationProof lines 36-69: expiresAt from a second clock read,
\* payload, hash, signature, return
GenerateFinish ==
    /\ genPc = "stamped"
    /\ LET g == genCall[1]
           p == generateVerificationProof(g.ceremonyData, g.nodePrivateKey, g.t1, clock)
       IN  /\ issued' = <<[proof |-> p, sk |-> Base64Decode(g.nodePrivateKey)]>>
           /\ proof' = <<p>>
    /\ genPc' = "idle"
    /\ genCall' = <<>>
    /\ last' = <<>>
    /\ UNCHANGED <<clock, valCall>>
    /\ UNCHANGED storeVars
    /\ UNCHANGED utilVars

\* the holder edits the expiry of the proof object before presenting it
\* (as the test 'should reject expired proof' does), to any midnight
TamperExpiry ==
    /\ proof # <<>>
    /\ proof = <<issued[1].proof>>
    /\ valCall = <<>>
    /\ \E t \in ClockValues :
         /\ t[2] = 0
         /\ ToISOString(t) # proof[1].expiresAt
         /\ proof' = <<[proof[1] EXCEPT !.expiresAt = ToISOString(t)]>>
    /\ last' = <<>>
    /\ UNCHANGED <<clock, genPc, genCall, issued, valCall>>
    /\ UNCHANGED storeVars
    /\ UNCHANGED utilVars

\* validateVerificationProof lines 82-101: expiry check on a first clock read,
\* then the signature check
ValidateBegin ==
    /\ proof # <<>>
    /\ valCall = <<>>
    /\ \E kp \in NodeKeyPairs :
         LET pk == Base64Encode(kp.publicKey)
             p == proof[1]
         IN  IF IsExpired(p, clock)
             THEN /\ last' = <<ValidationResult(pk, clock, clock, FALSE, REASON_EXPIRED)>>
                  /\ valCall' = <<>>
             ELSE IF ~IsSignatureValid(p, pk)
             THEN /\ last' = <<ValidationResult(pk, clock, clock, FALSE, REASON_SIGNATURE)>>
                  /\ valCall' = <<>>
             ELSE /\ valCall' = <<[pk |-> pk, start |-> clock]>>
                  /\ last' = last
    /\ UNCHANGED <<clock, genPc, genCall, issued, proof>>
    /\ UNCHANGED storeVars
    /\ UNCHANGED utilVars

\* validateVerificationProof lines 103-112: age check on a second clock read
ValidateAge ==
    /\ valCall # <<>>
    /\ LET v == valCall[1]
           p == proof[1]
       IN  IF IsTooOld(p, clock)
           THEN last' = <<ValidationResult(v.pk, v.start, clock, FALSE, REASON_TOO_OLD)>>
           ELSE last' = <<ValidationResult(v.pk, v.start, clock, TRUE, "")>>
    /\ valCall' = <<>>
    /\ UNCHANGED <<clock, genPc, genCall, issued, proof>>
    /\ UNCHANGED storeVars
    /\ UNCHANGED utilVars

\* the caller drops the proof; a new one can be generated
Discard ==
    /\ issued # <<>>
    /\ valCall = <<>>
    /\ clock[1] \in GenDays
    /\ issued' = <<>>
    /\ proof' = <<>>
    /\ last' = <<>>
    /\ UNCHANGED <<clock, genPc, genCall, valCall>>
    /\ UNCHANGED storeVars
    /\ UNCHANGED utilVars

InitStore ==
    /\ nodes = <<>>
    /\ events = <<>>
    /\ audit = <<>>
    /\ trx = <<>>
    /\ call = <<>>

InitUtilIdle ==
    /\ token = <<>>
    /\ tokLast = <<>>
    /\ scores = <<>>
    /\ user_profiles = <<>>
    /\ trust_scores = <<>>
    /\ trustLast = <<>>
    /\ keyStore = <<>>
    /\ keyLast = <<>>
    /\ possession = <<>>
    /\ timing = <<>>

InitEngineIdle ==
    /\ genPc = "idle"
    /\ genCall = <<>>
    /\ issued = <<>>
    /\ proof = <<>>
    /\ valCall = <<>>
    /\ last = <<>>

Init ==
    /\ clock \in {t \in ClockValues : t[1] \in GenDays}
    /\ InitEngineIdle
    /\ InitStore
    /\ InitUtilIdle

Next ==
    \/ Tick
    \/ GenerateStamp
    \/ GenerateFinish
    \/ TamperExpiry
    \/ ValidateBegin
    \/ ValidateAge
    \/ Discard

Spec == Init /\ [][Next]_vars

(***************************************************************************)
(* VerificationNodeService: the store                                      *)
(***************************************************************************)
\* number of service calls (each may overlap the others)
MaxCalls == 2

Calls == 1..MaxCalls

\* a 'public key' that is no 32-byte key, as the placeholders of the seed file
PlaceholderKey == Base64Encode([seed |-> 0, gen |-> 0, len |-> 27])

\* table verification_nodes: n1 is active with a real key, n2 is retired,
\* n3 is active with a placeholder key; no row has id "n0"
NodeRows ==
    [n \in {"n1", "n2", "n3"} |->
        [public_key |-> IF n = "n3" THEN PlaceholderKey
                        ELSE Base64Encode(GetPublicKey(KeyBytes(IF n = "n1" THEN 1 ELSE 2))),
         is_active |-> (n # "n2"),
         verification_count |-> 0]]
RequestNodeIds == {"n0", "n1", "n2", "n3"}

\* trx('verification_nodes').where({id, is_active: true}).first()
ActiveNodeAnyStatus(nodeId) ==
    IF nodeId \in DOMAIN nodes THEN <<nodes[nodeId]>> ELSE <<>>
ActiveNode(nodeId) ==
    IF nodeId \in DOMAIN nodes /\ nodes[nodeId].is_active
    THEN <<nodes[nodeId]>> ELSE <<>>

NoTrx == [open |-> FALSE, locks |-> {}, nodeLocks |-> {}, invalidated |-> {},
          inserted |-> <<>>, counted |-> <<>>, audited |-> <<>>]
OpenTrx == [NoTrx EXCEPT !.open = TRUE]

\* a call: its operation, position, request, locals, result; overlaps = the
\* calls that were running when it began; eventId = the id the store gave
\* to the row it inserted and committed (0: none)
IdleCall == [op |-> "none", pc |-> "idle", req |-> <<>>, overlaps |-> {}, userId |-> "",
             proof |-> <<>>, targets |-> {}, result |-> <<>>, eventId |-> 0]
Running(c) == call[c].pc \notin {"idle", "returned"}
RunningCalls == {c \in Calls : Running(c)}

\* row of verification_events built from a proof (lines 309-317, 466-474);
\* is_valid takes the column default
EventRow(userId, nodeId, p, renewal) ==
    [user_id |-> userId,
     node_id |-> nodeId,
     proof_hash |-> p.proofHash,
     node_signature |-> p.verifierSignature,
     verified_at |-> ParseDate(p.timestamp),
     expires_at |-> ParseDate(p.expiresAt),
     is_valid |-> TRUE,
     metadata |-> [version |-> p.metadata.version,
                   operatorId |-> p.metadata.operatorId,
                   renewal |-> renewal]]

\* row of audit_logs (lines 325-336)
AuditRowWithDocumentNumber(userId, req) ==
    [user_id |-> userId,
     action |-> "verification_ceremony",
     resource_type |-> "verification",
     resource_id |-> userId,
     metadata |-> [node_id |-> req.nodeId,
                   operator_id |-> req.operatorId,
                   document_type |-> req.documentNumber]]
AuditRow(userId, req) ==
    [user_id |-> userId,
     action |-> "verification_ceremony",
     resource_type |-> "verification",
     resource_id |-> userId,
     metadata |-> [node_id |-> req.nodeId,
                   operator_id |-> req.operatorId,
                   document_type |-> req.documentType]]

\* String.prototype.toLowerCase on the strings the requests use
ToLowerCase(str) == IF str = "A1" THEN "a1" ELSE str

\* hashDocument (lines 493-496)
hashDocument(request) ==
    Sha256Hex(<<ToLowerCase(request.documentType), ToLowerCase(request.documentNumber),
                ToLowerCase(request.fullName), ToLowerCase(request.dateOfBirth)>>)

\* hashBiometricData (lines 501-503)
hashBiometricData(biometricData) == Sha256Hex(<<biometricData>>)

\* findUserByDocumentHash (lines 508-512): always null
findUserByDocumentHash(documentHash) == <<>>

\* ed25519.sign throws unless the private key has 32 bytes
SignThrows(nodePrivateKey) == Base64Decode(nodePrivateKey).len # 32

\* the same document presented twice: once as 'A1' with biometric data,
\* once as 'a1' without
CeremonyRequests ==
    [nodeId : RequestNodeIds, operatorId : {"op1"}, documentType : {"passport"},
     documentNumber : {"A1"}, fullName : {"ann"},
     dateOfBirth : {"2000-01-01"}, biometricData : {<<"face">>}]
    \cup
    [nodeId : RequestNodeIds, operatorId : {"op1"}, documentType : {"passport"},
     documentNumber : {"a1"}, fullName : {"ann"},
     dateOfBirth : {"2000-01-01"}, biometricData : {<<>>}]

RenewalRequests == [userId : {"u1", "u2"}, nodeId : RequestNodeIds, operatorId : {"op1"}]

\* randomUUID(): an id no event and no running call carries
UsedUserIds ==
    {events[i].user_id : i \in DOMAIN events} \cup {call[c].userId : c \in Calls}
    \cup {call[c].result[1].userId :
             c \in {d \in Calls : call[d].result # <<>> /\ call[d].op \in {"ceremony", "renew"}}}
UnusedUserIds == UserIds \ UsedUserIds
\* unused ids are interchangeable: the call gets the first of them
FreshUserIds == {u \in UnusedUserIds : \A v \in UnusedUserIds : UserOrder(u) <= UserOrder(v)}

ERR_NODE == "Invalid or inactive verification node"
ERR_DUPLICATE == "User with this document already exists"
ERR_CEREMONY == "Ceremony failed"
ERR_NO_EXISTING == "No existing verification found for user"
ERR_RENEWAL == "Renewal failed"

Failure(error) == [success |-> FALSE, error |-> error, userId |-> "", proof |-> <<>>]
Success(userId, p) == [success |-> TRUE, error |-> "", userId |-> userId, proof |-> <<p>>]

\* rows of verification_events the statement snapshot of a call shows:
\* the committed rows (the calls here read before they write)
ValidEventsOf(userId) ==
    {i \in DOMAIN events : events[i].user_id = userId /\ events[i].is_valid}

LockedByOthers(c) == UNION {trx[d].locks : d \in Calls \ {c}}
NodesLockedByOthers(c) == UNION {trx[d].nodeLocks : d \in Calls \ {c}}

\* COMMIT: the writes of the transaction become the committed rows
CommittedEventsReplacing(t) ==
    LET kept == DOMAIN events \ t.invalidated
        rank(i) == Cardinality({j \in kept : j <= i})
    IN  [k \in 1..Cardinality(kept) |-> events[CHOOSE i \in kept : rank(i) = k]]
        \o t.inserted
CommittedEvents(t) ==
    [i \in DOMAIN events |->
        IF i \in t.invalidated THEN [events[i] EXCEPT !.is_valid = FALSE] ELSE events[i]]
    \o t.inserted
CommittedNodesEveryRow(t) ==
    [n \in DOMAIN nodes |->
        [nodes[n] EXCEPT !.verification_count = @ + Len(t.counted)]]
CommittedNodes(t) ==
    [n \in DOMAIN nodes |->
        [nodes[n] EXCEPT !.verification_count =
            @ + Cardinality({k \in DOMAIN t.counted : t.counted[k] = n})]]

\* the call returns and its transaction is over: its locks are released
Returned(c, result, eventId) ==
    /\ call' = [call EXCEPT ![c] = [IdleCall EXCEPT !.op = call[c].op,
                                      !.pc = "returned", !.req = call[c].req,
                                      !.overlaps = call[c].overlaps,
                                      !.result = <<result>>, !.eventId = eventId]]
    /\ trx' = [trx EXCEPT ![c] = NoTrx]

\* trx.rollback() and return of a failure: the writes of the call are dropped
ReturnWithoutRollback(c, result) ==
    /\ call' = [call EXCEPT ![c] = [IdleCall EXCEPT !.op = call[c].op,
                                      !.pc = "returned", !.req = call[c].req,
                                      !.overlaps = call[c].overlaps,
                                      !.result = <<result>>]]
    /\ trx' = trx
Return(c, result) == Returned(c, result, 0)

At(c, op, pc) == call[c].op = op /\ call[c].pc = pc

(***************************************************************************)
(* conductVerificationCeremony (lines 259-358)                             *)
(***************************************************************************)
\* line 262: the call opens its transaction
CeremonyBegin(c) ==
    /\ call[c].pc = "idle"
    /\ \A d \in Calls : d < c => call[d].pc # "idle"
    /\ \E r \in CeremonyRequests :
         call' = [call EXCEPT ![c] = [IdleCall EXCEPT !.op = "ceremony",
                                        !.pc = "getNode", !.req = <<r>>,
                                        !.overlaps = RunningCalls]]
    /\ trx' = [trx EXCEPT ![c] = OpenTrx]
    /\ UNCHANGED <<nodes, events, audit, clock>>
    /\ UNCHANGED engineVars
    /\ UNCHANGED utilVars

\* lines 266-306: gate 1 (the node), gate 2 (the duplicate lookup, which
\* reads nothing from the store), the user id and the proof signed with
\* node.public_key; the only store access is the SELECT of the node
CeremonyPrepare(c) ==
    /\ At(c, "ceremony", "getNode")
    /\ LET r == call[c].req[1]
           node == ActiveNode(r.nodeId)
           documentHash == hashDocument(r)
           existingUser == findUserByDocumentHash(documentHash)
       IN  IF node = <<>>
           THEN /\ Return(c, Failure(ERR_NODE))
                /\ clock' = clock
           ELSE IF existingUser # <<>>
           THEN /\ Return(c, Failure(ERR_DUPLICATE))
                /\ clock' = clock
           ELSE \E userId \in FreshUserIds :
                  /\ clock' = clock
                  /\ LET ceremonyData ==
                             [userId |-> userId,
                              nodeId |-> r.nodeId,
                              documentHash |-> documentHash,
                              biometricHash |-> IF r.biometricData # <<>>
                                                THEN hashBiometricData(r.biometricData[1])
                                                ELSE <<>>,
                              operatorId |-> r.operatorId]
                    IN  IF SignThrows(node[1].public_key)
                        THEN Return(c, Failure(ERR_CEREMONY))
                        ELSE /\ call' = [call EXCEPT
                                   ![c].userId = userId,
                                   ![c].proof = <<generateVerificationProof(
                                                    ceremonyData, node[1].public_key,
                                                    clock, clock)>>,
                                   ![c].pc = "insertEvent"]
                             /\ trx' = trx
    /\ UNCHANGED <<nodes, events, audit>>
    /\ UNCHANGED engineVars
    /\ UNCHANGED utilVars

\* lines 309-317; the insert throws when the store rejects it (user_id
\* references users, node_id references verification_nodes) or is unreachable
CeremonyInsertEvent(c) ==
    /\ At(c, "ceremony", "insertEvent")
    /\ \E ok \in BOOLEAN :
         IF ok
         THEN /\ trx' = [trx EXCEPT ![c].inserted =
                           Append(@, EventRow(call[c].userId, call[c].req[1].nodeId,
                                              call[c].proof[1], FALSE))]
              /\ call' = [call EXCEPT ![c].pc = "incrementCount"]
         ELSE Return(c, Failure(ERR_CEREMONY))
    /\ UNCHANGED <<nodes, events, audit, clock>>
    /\ UNCHANGED engineVars
    /\ UNCHANGED utilVars

\* lines 320-322; the UPDATE waits while another transaction holds the row
CeremonyIncrementCountOutsideTrx(c) ==
    /\ At(c, "ceremony", "incrementCount")
    /\ \E ok \in BOOLEAN :
         IF ok
         THEN /\ nodes' = [nodes EXCEPT
                    ![call[c].req[1].nodeId].verification_count = @ + 1]
              /\ call' = [call EXCEPT ![c].pc = "insertAudit"]
              /\ trx' = trx
         ELSE /\ Return(c, Failure(ERR_CEREMONY))
              /\ nodes' = nodes
    /\ UNCHANGED <<events, audit, clock>>
    /\ UNCHANGED engineVars
    /\ UNCHANGED utilVars
CeremonyIncrementCount(c) ==
    /\ At(c, "ceremony", "incrementCount")
    /\ call[c].req[1].nodeId \notin NodesLockedByOthers(c)
    /\ \E ok \in BOOLEAN :
         IF ok
         THEN /\ trx' = [trx EXCEPT ![c].counted = Append(@, call[c].req[1].nodeId),
                                    ![c].nodeLocks = @ \cup {call[c].req[1].nodeId}]
              /\ call' = [call EXCEPT ![c].pc = "insertAudit"]
         ELSE Return(c, Failure(ERR_CEREMONY))
    /\ UNCHANGED <<nodes, events, audit, clock>>
    /\ UNCHANGED engineVars
    /\ UNCHANGED utilVars

\* lines 325-336
CeremonyInsertAudit(c) ==
    /\ At(c, "ceremony", "insertAudit")
    /\ \E ok \in BOOLEAN :
         IF ok
         THEN /\ trx' = [trx EXCEPT ![c].audited =
                           Append(@, AuditRow(call[c].userId, call[c].req[1]))]
              /\ call' = [call EXCEPT ![c].pc = "commit"]
         ELSE Return(c, Failure(ERR_CEREMONY))
    /\ UNCHANGED <<nodes, events, audit, clock>>
    /\ UNCHANGED engineVars
    /\ UNCHANGED utilVars

\* lines 338-347
CeremonyCommit(c) ==
    /\ At(c, "ceremony", "commit")
    /\ \E ok \in BOOLEAN :
         IF ok
         THEN /\ events' = CommittedEvents(trx[c])
              /\ nodes' = CommittedNodes(trx[c])
              /\ audit' = audit \o trx[c].audited
              /\ Returned(c, Success(call[c].userId, call[c].proof[1]), Len(events) + 1)
         ELSE /\ Return(c, Failure(ERR_CEREMONY))
              /\ UNCHANGED <<nodes, events, audit>>
    /\ UNCHANGED clock
    /\ UNCHANGED engineVars
    /\ UNCHANGED utilVars

(***************************************************************************)
(* renewVerification (lines 415-488)                                       *)
(***************************************************************************)
\* line 420
RenewBegin(c) ==
    /\ call[c].pc = "idle"
    /\ \A d \in Calls : d < c => call[d].pc # "idle"
    /\ \E r \in RenewalRequests :
         call' = [call EXCEPT ![c] = [IdleCall EXCEPT !.op = "renew",
                                        !.pc = "findExisting", !.req = <<r>>,
                                        !.overlaps = RunningCalls]]
    /\ trx' = [trx EXCEPT ![c] = OpenTrx]
    /\ UNCHANGED <<nodes, events, audit, clock>>
    /\ UNCHANGED engineVars
    /\ UNCHANGED utilVars

\* lines 424-432
RenewFindExisting(c) ==
    /\ At(c, "renew", "findExisting")
    /\ LET existingVerification == ValidEventsOf(call[c].req[1].userId)
       IN  IF existingVerification = {}
           THEN Return(c, Failure(ERR_NO_EXISTING))
           ELSE /\ call' = [call EXCEPT ![c].pc = "invalidate"]
                /\ trx' = trx
    /\ UNCHANGED <<nodes, events, audit, clock>>
    /\ UNCHANGED engineVars
    /\ UNCHANGED utilVars

\* lines 435-437, the UPDATE starts: its snapshot fixes the rows it will visit
RenewInvalidateScan(c) ==
    /\ At(c, "renew", "invalidate")
    /\ call' = [call EXCEPT ![c].targets = ValidEventsOf(call[c].req[1].userId),
                            ![c].pc = "invalidateRows"]
    /\ UNCHANGED <<nodes, events, audit, trx, clock>>
    /\ UNCHANGED engineVars
    /\ UNCHANGED utilVars

\* lines 435-437, the UPDATE finishes: it waits for the rows another
\* transaction holds, evaluates the WHERE clause again on their committed
\* version and updates and locks the rows that still match
RenewInvalidateRowsOutsideTrx(c) ==
    /\ At(c, "renew", "invalidateRows")
    /\ call[c].targets \cap LockedByOthers(c) = {}
    /\ \E ok \in BOOLEAN :
         IF ok
         THEN /\ events' = [i \in DOMAIN events |->
                              IF i \in call[c].targets
                              THEN [events[i] EXCEPT !.is_valid = FALSE] ELSE events[i]]
              /\ call' = [call EXCEPT ![c].targets = {}, ![c].pc = "getNode"]
              /\ trx' = trx
         ELSE /\ Return(c, Failure(ERR_RENEWAL))
              /\ events' = events
    /\ UNCHANGED <<nodes, audit, clock>>
    /\ UNCHANGED engineVars
    /\ UNCHANGED utilVars
RenewInvalidateRows(c) ==
    /\ At(c, "renew", "invalidateRows")
    /\ call[c].targets \cap LockedByOthers(c) = {}
    /\ \E ok \in BOOLEAN :
         IF ok
         THEN LET rows == {i \in call[c].targets : events[i].is_valid}
              IN  /\ trx' = [trx EXCEPT ![c].invalidated = @ \cup rows,
                                        ![c].locks = @ \cup rows]
                  /\ call' = [call EXCEPT ![c].targets = {}, ![c].pc = "getNode"]
         ELSE Return(c, Failure(ERR_RENEWAL))
    /\ UNCHANGED <<nodes, events, audit, clock>>
    /\ UNCHANGED engineVars
    /\ UNCHANGED utilVars

\* lines 440-463: the ceremony data, the SELECT of the node and the proof
\* signed with node.public_key
RenewPrepare(c) ==
    /\ At(c, "renew", "getNode")
    /\ LET r == call[c].req[1]
           node == ActiveNode(r.nodeId)
           ceremonyData == [userId |-> r.userId, nodeId |-> r.nodeId,
                            documentHash |-> <<>>, biometricHash |-> <<>>,
                            operatorId |-> r.operatorId]
       IN  IF node = <<>>
           THEN /\ Return(c, Failure(ERR_NODE))
                /\ clock' = clock
           ELSE /\ clock' = clock
                /\ IF SignThrows(node[1].public_key)
                   THEN Return(c, Failure(ERR_RENEWAL))
                   ELSE /\ call' = [call EXCEPT
                              ![c].proof = <<generateVerificationProof(
                                               ceremonyData, node[1].public_key,
                                               clock, clock)>>,
                              ![c].pc = "insertEvent"]
                        /\ trx' = trx
    /\ UNCHANGED <<nodes, events, audit>>
    /\ UNCHANGED engineVars
    /\ UNCHANGED utilVars

\* a renewal that counts as a verification of its node
RenewInsertEventCounting(c) ==
    /\ At(c, "renew", "insertEvent")
    /\ \E ok \in BOOLEAN :
         IF ok
         THEN /\ trx' = [trx EXCEPT ![c].inserted =
                           Append(@, EventRow(call[c].req[1].userId, call[c].req[1].nodeId,
                                              call[c].proof[1], TRUE)),
                                    ![c].counted = Append(@, call[c].req[1].nodeId)]
              /\ call' = [call EXCEPT ![c].pc = "commit"]
         ELSE Return(c, Failure(ERR_RENEWAL))
    /\ UNCHANGED <<nodes, events, audit, clock>>
    /\ UNCHANGED engineVars
    /\ UNCHANGED utilVars

\* lines 466-474
RenewInsertEvent(c) ==
    /\ At(c, "renew", "insertEvent")
    /\ \E ok \in BOOLEAN :
         IF ok
         THEN /\ trx' = [trx EXCEPT ![c].inserted =
                           Append(@, EventRow(call[c].req[1].userId, call[c].req[1].nodeId,
                                              call[c].proof[1], TRUE))]
              /\ call' = [call EXCEPT ![c].pc = "commit"]
         ELSE Return(c, Failure(ERR_RENEWAL))
    /\ UNCHANGED <<nodes, events, audit, clock>>
    /\ UNCHANGED engineVars
    /\ UNCHANGED utilVars

\* lines 476-482
RenewCommit(c) ==
    /\ At(c, "renew", "commit")
    /\ \E ok \in BOOLEAN :
         IF ok
         THEN /\ events' = CommittedEvents(trx[c])
              /\ nodes' = CommittedNodes(trx[c])
              /\ audit' = audit \o trx[c].audited
              /\ Returned(c, Success(call[c].req[1].userId, call[c].proof[1]),
                          Len(events) + 1)
         ELSE /\ Return(c, Failure(ERR_RENEWAL))
              /\ UNCHANGED <<nodes, events, audit>>
    /\ UNCHANGED clock
    /\ UNCHANGED engineVars
    /\ UNCHANGED utilVars

(***************************************************************************)
(* The service specification                                               *)
(***************************************************************************)
\* what an earlier ceremony at n1 for user u1 left in the store: its
\* verification event, its audit entry and n1's counter
EarlierRequest ==
    [nodeId |-> "n1", operatorId |-> "op1", documentType |-> "passport",
     documentNumber |-> "c3", fullName |-> "cy", dateOfBirth |-> "1990-01-01",
     biometricData |-> <<>>]
EarlierCeremonyEvent ==
    EventRow("u1", "n1",
             generateVerificationProof(
                 [userId |-> "u1", nodeId |-> "n1",
                  documentHash |-> hashDocument(EarlierRequest),
                  biometricHash |-> <<>>, operatorId |-> "op1"],
                 NodeRows["n1"].public_key, Time(0, 0), Time(0, 0)),
             FALSE)
StoreAfterEarlierCeremony ==
    /\ events = <<EarlierCeremonyEvent>>
    /\ audit = <<AuditRow("u1", EarlierRequest)>>
    /\ nodes = [NodeRows EXCEPT !["n1"].verification_count = 1]
StoreAfterSeed ==
    /\ events = <<>>
    /\ audit = <<>>
    /\ nodes = NodeRows

(***************************************************************************)
(* validateVerificationProof (lines 363-410), getNodeStatistics (517-539)  *)
(***************************************************************************)
\* the verdict of a lookup that does not ask whose event it finds
serviceValidateVerificationProofAnyUser(userId, proofData, now, verifyThrows) ==
    IF ~IsJson(proofData)
    THEN [isValid |-> FALSE, reason |-> "Validation error"]
    ELSE LET p == JsonParse(proofData)
             matching == {i \in DOMAIN events :
                             /\ events[i].node_id = p.nodeId
                             /\ events[i].proof_hash = p.proofHash
                             /\ events[i].is_valid}
         IN  IF p.nodeId \notin DOMAIN nodes
             THEN [isValid |-> FALSE, reason |-> "Unknown verification node"]
             ELSE IF IsExpired(p, now)
             THEN [isValid |-> FALSE, reason |-> REASON_EXPIRED]
             ELSE IF Base64Decode(nodes[p.nodeId].public_key).len # 32 /\ verifyThrows
             THEN [isValid |-> FALSE, reason |-> "Validation error"]
             ELSE IF ~IsSignatureValid(p, nodes[p.nodeId].public_key)
             THEN [isValid |-> FALSE, reason |-> REASON_SIGNATURE]
             ELSE IF IsTooOld(p, now)
             THEN [isValid |-> FALSE, reason |-> REASON_TOO_OLD]
             ELSE IF matching = {}
             THEN [isValid |-> FALSE, reason |-> "Verification event not found in database"]
             ELSE IF TimeLT(events[CHOOSE i \in matching : TRUE].expires_at, now)
             THEN [isValid |-> FALSE, reason |-> "Verification has expired"]
             ELSE [isValid |-> TRUE, reason |-> ""]

\* the service's validateVerificationProof: JSON.parse, getNode (any node,
\* active or not), the engine's validation against node.public_key, the
\* lookup of the valid event and its expiry; every exception ends in the
\* catch of line 407.  ed25519.verify rejects a public key that has not 32
\* bytes by throwing or by returning false (verifyThrows)
serviceValidateVerificationProof(userId, proofData, now, verifyThrows) ==
    IF ~IsJson(proofData)
    THEN [isValid |-> FALSE, reason |-> "Validation error"]
    ELSE LET p == JsonParse(proofData)
             matching == {i \in DOMAIN events :
                             /\ events[i].user_id = userId
                             /\ events[i].node_id = p.nodeId
                             /\ events[i].proof_hash = p.proofHash
                             /\ events[i].is_valid}
         IN  IF p.nodeId \notin DOMAIN nodes
             THEN [isValid |-> FALSE, reason |-> "Unknown verification node"]
             ELSE IF IsExpired(p, now)
             THEN [isValid |-> FALSE, reason |-> REASON_EXPIRED]
             ELSE IF Base64Decode(nodes[p.nodeId].public_key).len # 32 /\ verifyThrows
             THEN [isValid |-> FALSE, reason |-> "Validation error"]
             ELSE IF ~IsSignatureValid(p, nodes[p.nodeId].public_key)
             THEN [isValid |-> FALSE, reason |-> REASON_SIGNATURE]
             ELSE IF IsTooOld(p, now)
             THEN [isValid |-> FALSE, reason |-> REASON_TOO_OLD]
             ELSE IF matching = {}
             THEN [isValid |-> FALSE, reason |-> "Verification event not found in database"]
             \* .first(): the rows that match carry the same proof hash,
             \* hence the same expiry
             ELSE IF TimeLT(events[CHOOSE i \in matching : TRUE].expires_at, now)
             THEN [isValid |-> FALSE, reason |-> "Verification has expired"]
             ELSE [isValid |-> TRUE, reason |-> ""]

\* what a caller can present: a proof a ceremony or renewal returned, the
\* proof node n1 issues for the earlier ceremony when it signs with its
\* private key, that proof with the name of another node, each of them with
\* the id of any user, and a string that is no JSON
ValidationRequests ==
    LET returned == {call[d].result[1].proof[1] :
                        d \in {e \in Calls : /\ call[e].op \in {"ceremony", "renew"}
                                             /\ call[e].pc = "returned"
                                             /\ call[e].result[1].success}}
        genuine == generateVerificationProof(
                       [userId |-> "u1", nodeId |-> "n1",
                        documentHash |-> hashDocument(EarlierRequest),
                        biometricHash |-> <<>>, operatorId |-> "op1"],
                       Base64Encode(KeyBytes(1)), Time(0, 0), Time(0, 0))
        proofs == returned \cup {genuine, [genuine EXCEPT !.nodeId = "n0"],
                                 [genuine EXCEPT !.nodeId = "n3"]}
    IN  {[userId |-> u, proofData |-> JsonStringify(q)] : u \in UserIds, q \in proofs}
        \cup {[userId |-> "u1", proofData |-> [txt |-> "not json"]]}

\* lines 363-410: the call reads the committed rows and writes nothing; the
\* key it reads from the node is the same at every moment of the call
ValidateProof(c) ==
    /\ call[c].pc = "idle"
    /\ \A d \in Calls : d < c => call[d].pc # "idle"
    /\ \E r \in ValidationRequests, verifyThrows \in BOOLEAN :
         call' = [call EXCEPT ![c] =
                     [IdleCall EXCEPT !.op = "validate", !.pc = "returned", !.req = <<r>>,
                                      !.overlaps = RunningCalls,
                                      !.result = <<serviceValidateVerificationProof(
                                                     r.userId, r.proofData, clock,
                                                     verifyThrows)>>]]
    /\ UNCHANGED <<nodes, events, audit, trx, clock>>
    /\ UNCHANGED engineVars
    /\ UNCHANGED utilVars

\* lines 517-539: two COUNTs over the events of the node and a SELECT of the
\* node; average_per_day is the total divided by the age of the node row in
\* days and adds nothing to what the counts tell
NodeStatistics(c) ==
    /\ call[c].pc = "idle"
    /\ \A d \in Calls : d < c => call[d].pc # "idle"
    /\ \E nodeId \in RequestNodeIds :
         LET ofNode == {i \in DOMAIN events : events[i].node_id = nodeId}
             recent == {i \in ofNode :
                           ~DaysDiffGT(TimeDiff(clock, events[i].verified_at), 30)}
         IN  call' = [call EXCEPT ![c] =
                        [IdleCall EXCEPT !.op = "statistics", !.pc = "returned",
                                         !.req = <<[nodeId |-> nodeId]>>,
                                         !.overlaps = RunningCalls,
                                         !.result = <<[total_verifications |-> Cardinality(ofNode),
                                                       recent_verifications |-> Cardinality(recent)]>>]]
    /\ UNCHANGED <<nodes, events, audit, trx, clock>>
    /\ UNCHANGED engineVars
    /\ UNCHANGED utilVars

InitService ==
    /\ clock = Time(0, 0)
    /\ InitEngineIdle
    /\ (StoreAfterSeed \/ StoreAfterEarlierCeremony)
    /\ trx = [c \in Calls |-> NoTrx]
    /\ call = [c \in Calls |-> IdleCall]
    /\ InitUtilIdle

NextService ==
    \E c \in Calls :
         \/ CeremonyBegin(c)
         \/ CeremonyPrepare(c)
         \/ CeremonyInsertEvent(c)
         \/ CeremonyIncrementCount(c)
         \/ CeremonyInsertAudit(c)
         \/ CeremonyCommit(c)
         \/ RenewBegin(c)
         \/ RenewFindExisting(c)
         \/ RenewInvalidateScan(c)
         \/ RenewInvalidateRows(c)
         \/ RenewPrepare(c)
         \/ RenewInsertEvent(c)
         \/ RenewCommit(c)
         \/ ValidateProof(c)
         \/ NodeStatistics(c)

SpecService == InitService /\ [][NextService]_vars

\* a call that has begun takes its next step when it can: the awaited
\* statement completes, or the row lock it waits for is released
CallStep(c) ==
    \/ CeremonyPrepare(c)
    \/ CeremonyInsertEvent(c)
    \/ CeremonyIncrementCount(c)
    \/ CeremonyInsertAudit(c)
    \/ CeremonyCommit(c)
    \/ RenewFindExisting(c)
    \/ RenewInvalidateScan(c)
    \/ RenewInvalidateRows(c)
    \/ RenewPrepare(c)
    \/ RenewInsertEvent(c)
    \/ RenewCommit(c)

SpecServiceFair == SpecService /\ \A c \in Calls : WF_vars(CallStep(c))


(***************************************************************************)
(* Properties of the service (checked under SpecService)                   *)
(***************************************************************************)
IsReturned(c, op) == call[c].op = op /\ call[c].pc = "returned"
Succeeded(c, op) == IsReturned(c, op) /\ call[c].result[1].success
ValidRowsOfUser(rows, userId) ==
    {i \in DOMAIN rows : rows[i].user_id = userId /\ rows[i].is_valid}

\* the step in which renewal c commits and returns success
RenewalSucceeds(c) ==
    /\ call[c].op = "renew" /\ call[c].pc = "commit"
    /\ call'[c].pc = "returned" /\ call'[c].result[1].success

\* C3: when a renewVerification for a user returns success, exactly one
\* event of that user has is_valid = TRUE: the event this renewal created.
C3_RenewalStep ==
    \A c \in Calls :
        RenewalSucceeds(c) =>
            ValidRowsOfUser(events', call[c].req[1].userId) = {call'[c].eventId}

C3_OneActiveAfterRenewal == [][C3_RenewalStep]_vars

\* C4: of two renewVerification calls for the same user that overlap, exactly
\* one succeeds and the other is rejected, and no committed state holds two
\* events of one user with is_valid = TRUE.
C4_ConcurrentRenewals ==
    /\ \A u \in UserIds : Cardinality(ValidRowsOfUser(events, u)) <= 1
    /\ \A c, d \in Calls :
         (/\ IsReturned(c, "renew") /\ IsReturned(d, "renew")
          /\ c \in call[d].overlaps
          /\ call[c].req[1].userId = call[d].req[1].userId
          /\ Succeeded(c, "renew") \/ Succeeded(d, "renew"))
         => (Succeeded(c, "renew") # Succeeded(d, "renew"))

CeremonyEventsOf(userId) ==
    {i \in DOMAIN events : events[i].user_id = userId /\ ~events[i].metadata.renewal}
CeremonyEventsAt(nodeId) ==
    {i \in DOMAIN events : events[i].node_id = nodeId /\ ~events[i].metadata.renewal}
AuditEntriesOf(userId) == {i \in DOMAIN audit : audit[i].user_id = userId}
AuditEntriesAt(nodeId) == {i \in DOMAIN audit : audit[i].metadata.node_id = nodeId}

\* C5: in every committed state each ceremony has all three of its effects
\* or none: a user has a ceremony event exactly when the audit log has the
\* ceremony's entry, each node's counter is the number of ceremony events
\* and of audit entries of that node, and the ceremonies that returned
\* success are the ones whose effects are there.
C5_CeremonyAtomic ==
    /\ \A u \in UserIds :
         /\ Cardinality(CeremonyEventsOf(u)) = Cardinality(AuditEntriesOf(u))
         /\ Cardinality(CeremonyEventsOf(u)) <= 1
    /\ \A n \in DOMAIN nodes :
         /\ nodes[n].verification_count = Cardinality(CeremonyEventsAt(n))
         /\ nodes[n].verification_count = Cardinality(AuditEntriesAt(n))
    /\ \A c \in Calls :
         IsReturned(c, "ceremony") =>
            IF call[c].result[1].success
            THEN /\ call[c].eventId \in CeremonyEventsOf(call[c].result[1].userId)
                 /\ AuditEntriesOf(call[c].result[1].userId) # {}
            ELSE call[c].eventId = 0
    /\ Cardinality(UNION {CeremonyEventsOf(u) : u \in UserIds})
         = Cardinality({c \in Calls : Succeeded(c, "ceremony")})
            + Cardinality({i \in DOMAIN events :
                              [events[i] EXCEPT !.is_valid = TRUE] = EarlierCeremonyEvent})

C5_Witness ==
    \E c \in Calls :
        /\ Succeeded(c, "ceremony")
        /\ call[c].eventId \in CeremonyEventsOf(call[c].result[1].userId)
        /\ AuditEntriesOf(call[c].result[1].userId) # {}
        /\ nodes[call[c].req[1].nodeId].verification_count >= 1
        /\ \E d \in Calls : IsReturned(d, "ceremony") /\ call[d].result[1].error = ERR_CEREMONY

\* C6: no two completed ceremonies are issued for the same document: a
\* ceremony whose document hash is bound to an identity by an earlier
\* completed ceremony is rejected as a duplicate identity.
C6_OneAccountPerDocument ==
    \A c, d \in Calls :
        (c # d /\ Succeeded(c, "ceremony") /\ Succeeded(d, "ceremony"))
        => hashDocument(call[c].req[1]) # hashDocument(call[d].req[1])

NamesInvalidNode(c) ==
    /\ call[c].op = "ceremony"
    /\ \/ call[c].req[1].nodeId \notin DOMAIN nodes
       \/ ~nodes[call[c].req[1].nodeId].is_active

\* C7: a ceremony that names a node that does not exist or is not active
\* returns the invalid-node error, and no step of it writes anything: no
\* verification event, no counter change, no audit entry, neither committed
\* nor pending in its transaction.
C7_InvalidNodeState ==
    \A c \in Calls :
        NamesInvalidNode(c) =>
            /\ call[c].pc \in {"getNode", "returned"}
            /\ call[c].pc = "returned" => call[c].result[1] = Failure(ERR_NODE)
            /\ trx[c].inserted = <<>> /\ trx[c].counted = <<>> /\ trx[c].audited = <<>>

C7_InvalidNodeStep ==
    \A c \in Calls :
        (NamesInvalidNode(c) /\ call'[c] # call[c])
        => (events' = events /\ nodes' = nodes /\ audit' = audit)

Untampered == issued # <<>> /\ proof = <<issued[1].proof>>
IssuerPublicKey == Base64Encode(GetPublicKey(issued[1].sk))
ProofTimestamp == ParseDate(proof[1].timestamp)
ProofExpiry == ParseDate(proof[1].expiresAt)
AgeReasons == {REASON_EXPIRED, REASON_TOO_OLD}

\* C1: a generated proof, validated with the public key of the keypair that
\* signed it, in a validation that ends no later than its expiresAt, is
\* accepted (isValid = TRUE).
C1_ValidBeforeExpiry ==
    (Untampered /\ last # <<>> /\ last[1].pk = IssuerPublicKey
       /\ TimeLE(last[1].end, ProofExpiry))
    => last[1].isValid

\* C2: a proof generated with one node's private key and validated with
\* another node's public key is rejected, and the reason is always the
\* invalid-signature reason.
C2_WrongKeyAlwaysSignatureReason ==
    (issued # <<>> /\ last # <<>> /\ last[1].pk # IssuerPublicKey)
    => (~last[1].isValid /\ last[1].reason = REASON_SIGNATURE)

\* C2 (amended): a proof validated with another node's public key is always
\* rejected; the reason is the invalid-signature reason when the validation
\* starts no later than the proof's expiresAt, and the expired reason otherwise.
C2_WrongKeyRejected ==
    (issued # <<>> /\ last # <<>> /\ last[1].pk # IssuerPublicKey)
    => /\ ~last[1].isValid
       /\ last[1].reason = IF TimeLE(last[1].start, ProofExpiry)
                           THEN REASON_SIGNATURE ELSE REASON_EXPIRED

C2_Witness ==
    /\ Untampered /\ last # <<>>
    /\ last[1].pk # IssuerPublicKey
    /\ TimeLE(last[1].start, ProofExpiry)
    /\ last[1].reason = REASON_SIGNATURE

\* C8: every generated proof has expiresAt - timestamp = exactly 90 days.
C8_ExactlyNinetyDays ==
    issued # <<>> =>
        TimeDiff(ParseDate(issued[1].proof.expiresAt),
                 ParseDate(issued[1].proof.timestamp)) = <<VALIDITY_DAYS, 0>>

\* C9: a validation that starts after the proof's expiresAt rejects the
\* proof with the expired reason, whether or not the signature verifies
\* against the supplied public key.
C9_ExpiredRejected ==
    (last # <<>> /\ TimeLT(ProofExpiry, last[1].start))
    => (~last[1].isValid /\ last[1].reason = REASON_EXPIRED)

C9_Witness ==
    /\ last # <<>>
    /\ TimeLT(ProofExpiry, last[1].start)
    /\ IsSignatureValid(proof[1], last[1].pk)
    /\ last[1].reason = REASON_EXPIRED

\* C10: an unmodified proof with timestamp t0, validated with the issuing
\* node's public key, is accepted by every validation that runs within
\* t0 .. t0 + 90 days and rejected for age by every validation that starts
\* after t0 + 90 days; after a rejection for age no later validation of the
\* same proof accepts it.
C10_AcceptedWithinWindow ==
    (Untampered /\ last # <<>> /\ last[1].pk = IssuerPublicKey
       /\ TimeLE(last[1].end, AddDaysMs(ProofTimestamp, VALIDITY_DAYS)))
    => last[1].isValid

C10_RejectedAfterWindow ==
    (Untampered /\ last # <<>> /\ last[1].pk = IssuerPublicKey
       /\ TimeLT(AddDaysMs(ProofTimestamp, VALIDITY_DAYS), last[1].start))
    => (~last[1].isValid /\ last[1].reason \in AgeReasons)

C10_StaysRejected ==
    (last # <<>> /\ last[1].reason \in AgeReasons /\ proof' = proof /\ last' # <<>>)
    => ~last'[1].isValid

C10_ValidityWindow ==
    /\ [](C10_AcceptedWithinWindow /\ C10_RejectedAfterWindow)
    /\ [][C10_StaysRejected]_vars

C10_Witness ==
    /\ Untampered /\ last # <<>> /\ last[1].pk = IssuerPublicKey
    /\ last[1].isValid
    /\ TimeDiff(last[1].end, ProofTimestamp) = <<VALIDITY_DAYS - 1, 0>>

\* C11: every validation that reads the clock later than timestamp + 90 days
\* rejects the proof; when the proof's expiresAt field still lies in the
\* future and the signature verifies against the supplied key, the rejection
\* is the age check's ("Proof is too old"), whatever expiresAt says.
C11_AgeCheckIndependent ==
    /\ (last # <<>> /\ TimeLT(AddDaysMs(ProofTimestamp, VALIDITY_DAYS), last[1].end))
         => ~last[1].isValid
    /\ (last # <<>> /\ TimeLT(AddDaysMs(ProofTimestamp, VALIDITY_DAYS), last[1].end)
           /\ TimeLE(last[1].start, ProofExpiry)
           /\ Ed25519Verify(Base64Decode(proof[1].verifierSignature),
                            HexDecode(proof[1].proofHash), Base64Decode(last[1].pk)))
         => last[1].reason = REASON_TOO_OLD

C11_Witness ==
    /\ issued # <<>> /\ last # <<>>
    /\ proof[1].expiresAt # issued[1].proof.expiresAt
    /\ TimeLT(last[1].end, ProofExpiry)
    /\ last[1].pk = IssuerPublicKey
    /\ TimeLT(AddDaysMs(ProofTimestamp, VALIDITY_DAYS), last[1].start)
    /\ ~last[1].isValid /\ last[1].reason = REASON_TOO_OLD

(***************************************************************************)
(* Token codec: createProofToken and validateProofToken                    *)
(* (verification.ts lines 129-191)                                         *)
(***************************************************************************)
\* A string is a sequence of pieces: the character '.', a run of base64
\* text (which never holds a '.') or a run of other text; '' is <<>>.
Dot == [ch |-> "."]
Base64Text(bytes) == <<[b64 |-> bytes]>>
PlainText(name) == <<[txt |-> name]>>

\* createHmac('sha256', key).update(msg).digest(): HMAC pads a key shorter
\* than the hash's block with zero bytes, so keys that differ only in
\* trailing zero bytes give the same MAC
HMAC_BLOCK == 64
HmacKey(key) == [i \in 1..HMAC_BLOCK |-> IF i <= Len(key) THEN key[i] ELSE 0]
HmacSha256IgnoringKey(key, msg) == [hmacKey |-> HmacKey(<<>>), over |-> msg]
HmacSha256(key, msg) == [hmacKey |-> HmacKey(key), over |-> msg]

\* String.prototype.split('.'): the pieces between the separators
RECURSIVE Split(_)
Split(str) ==
    IF \A i \in DOMAIN str : str[i] # Dot
    THEN <<str>>
    ELSE LET i == CHOOSE k \in DOMAIN str :
                      str[k] = Dot /\ \A j \in 1..(k - 1) : str[j] # Dot
         IN  <<SubSeq(str, 1, i - 1)>> \o Split(SubSeq(str, i + 1, Len(str)))

\* lines 130-136: the fields of the proof the token carries
TokenPayloadSwapped(p) ==
    [userId |-> p.nodeId, nodeId |-> p.userId, timestamp |-> p.timestamp,
     expiresAt |-> p.expiresAt, proofHash |-> p.proofHash]
TokenPayloadWithSignature(p) ==
    [userId |-> p.userId, nodeId |-> p.nodeId, timestamp |-> p.timestamp,
     expiresAt |-> p.expiresAt, proofHash |-> p.proofHash,
     verifierSignature |-> p.verifierSignature]
TokenPayload(p) ==
    [userId |-> p.userId, nodeId |-> p.nodeId, timestamp |-> p.timestamp,
     expiresAt |-> p.expiresAt, proofHash |-> p.proofHash]

\* lines 138-143
createProofToken(p, secretKey) ==
    LET payloadString == Base64Text(JsonStringify(TokenPayload(p)))
        signature == Base64Text(HmacSha256(secretKey, payloadString))
    IN  payloadString \o <<Dot>> \o signature

REASON_TOKEN_FORMAT == "Invalid token format"
REASON_TOKEN_SIGNATURE == "Invalid token signature"
REASON_TOKEN_EXPIRED == "Token has expired"
REASON_TOKEN_ERROR == "Token validation error"

TokenResult(isValid, reason, p) == [isValid |-> isValid, reason |-> reason, proof |-> p]

\* line 155: const [payloadString, signature] = token.split('.'); a missing
\* element is undefined, which line 156 treats like the empty string
Destructure(parts, i) == IF i <= Len(parts) THEN parts[i] ELSE <<>>

\* line 173: new Date() > new Date(payload.expiresAt)
IsTokenExpiredNever(payload, now) == FALSE
IsTokenExpired(payload, now) == TimeLT(ParseDate(payload.expiresAt), now)

\* lines 170 and 188-190: Buffer.from(s, 'base64') then JSON.parse, which
\* throws on anything that is not JSON text
Decodable(payloadString) ==
    /\ Len(payloadString) = 1
    /\ DOMAIN payloadString[1] = {"b64"}
    /\ IsJson(payloadString[1].b64)

\* lines 149-191
validateProofToken(str, secretKey, now) ==
    LET parts == Split(str)
        payloadString == Destructure(parts, 1)
        signature == Destructure(parts, 2)
        expectedSignature == Base64Text(HmacSha256(secretKey, payloadString))
    IN  IF payloadString = <<>> \/ signature = <<>>
        THEN TokenResult(FALSE, REASON_TOKEN_FORMAT, <<>>)
        ELSE IF signature # expectedSignature
        THEN TokenResult(FALSE, REASON_TOKEN_SIGNATURE, <<>>)
        ELSE IF ~Decodable(payloadString)
        THEN TokenResult(FALSE, REASON_TOKEN_ERROR, <<>>)
        ELSE LET payload == JsonParse(payloadString[1].b64)
             IN  IF IsTokenExpired(payload, now)
                 THEN TokenResult(FALSE, REASON_TOKEN_EXPIRED, <<>>)
                 ELSE TokenResult(TRUE, "",
                          <<[userId |-> payload.userId,
                             nodeId |-> payload.nodeId,
                             timestamp |-> payload.timestamp,
                             verifierSignature |-> <<>>,
                             proofHash |-> payload.proofHash,
                             expiresAt |-> payload.expiresAt]>>)

\* server secrets, as byte strings: two unrelated ones and the first with a
\* zero byte appended
Secrets == {<<107>>, <<113>>, <<107, 0>>}

\* what a client can send instead of the token it was given
PresentedStrings(str) ==
    LET parts == Split(str)
    IN  {str,
         str \o <<Dot>> \o PlainText("extra"),
         parts[1],
         parts[1] \o <<Dot>>,
         <<Dot>> \o parts[2],
         <<>>,
         PlainText("invalid") \o <<Dot>> \o PlainText("token") \o <<Dot>> \o PlainText("format")}

(***************************************************************************)
(* Actions of the token codec                                              *)
(***************************************************************************)
\* createProofToken(proof, secretKey)
CreateToken ==
    /\ proof # <<>>
    /\ token = <<>>
    /\ \E s \in Secrets :
         LET str == createProofToken(proof[1], s)
         IN  token' = <<[minted |-> str, secret |-> s, str |-> str]>>
    /\ tokLast' = <<>>
    /\ UNCHANGED <<clock, scorerVars>>
    /\ UNCHANGED engineVars
    /\ UNCHANGED storeVars
    /\ UNCHANGED helperVars

\* the client sends back something else than the token it was given
PresentToken ==
    /\ token # <<>>
    /\ token[1].str = token[1].minted
    /\ \E str \in PresentedStrings(token[1].minted) \ {token[1].minted} :
         token' = <<[token[1] EXCEPT !.str = str]>>
    /\ tokLast' = <<>>
    /\ UNCHANGED <<clock, scorerVars>>
    /\ UNCHANGED engineVars
    /\ UNCHANGED storeVars
    /\ UNCHANGED helperVars

\* validateProofToken(token, secretKey); its one clock read is line 173
ValidateToken ==
    /\ token # <<>>
    /\ \E s \in Secrets :
         tokLast' = <<[str |-> token[1].str, secret |-> s, at |-> clock,
                       result |-> validateProofToken(token[1].str, s, clock)]>>
    /\ UNCHANGED <<clock, token, scorerVars>>
    /\ UNCHANGED engineVars
    /\ UNCHANGED storeVars
    /\ UNCHANGED helperVars

\* the token is dropped; another one can be created
DiscardToken ==
    /\ token # <<>>
    /\ token' = <<>>
    /\ tokLast' = <<>>
    /\ UNCHANGED <<clock, scorerVars>>
    /\ UNCHANGED engineVars
    /\ UNCHANGED storeVars
    /\ UNCHANGED helperVars

\* a proof has been generated and returned; nothing has been done with it yet
InitIssued ==
    /\ clock \in {t \in ClockValues : t[1] \in GenDays}
    /\ \E c \in CeremonyInputs :
         LET sk == KeyBytes(1)
             p == generateVerificationProof(c, Base64Encode(sk), clock, clock)
         IN  /\ issued = <<[proof |-> p, sk |-> sk]>>
             /\ proof = <<p>>
    /\ genPc = "idle"
    /\ genCall = <<>>
    /\ valCall = <<>>
    /\ last = <<>>
    /\ InitStore
    /\ InitUtilIdle

NextToken ==
    \/ Tick
    \/ CreateToken
    \/ PresentToken
    \/ ValidateToken
    \/ DiscardToken

SpecToken == InitIssued /\ [][NextToken]_vars

(***************************************************************************)
(* Properties of the token codec (checked under SpecToken)                 *)
(***************************************************************************)
TokenValidated == token # <<>> /\ tokLast # <<>>
MintedPresented == TokenValidated /\ tokLast[1].str = token[1].minted
TokenExpiry == ParseDate(proof[1].expiresAt)
MalformedString(str) ==
    LET parts == Split(str)
    IN  Len(parts) # 2 \/ parts[1] = <<>> \/ parts[2] = <<>>

\* C12: the token created from a proof with a secret, validated with the same
\* secret no later than the proof's expiresAt, is valid, and the proof it
\* returns has the userId, nodeId and proofHash of the original proof.
C12_TokenRoundTrip ==
    (MintedPresented /\ tokLast[1].secret = token[1].secret
       /\ TimeLE(tokLast[1].at, TokenExpiry))
    => /\ tokLast[1].result.isValid
       /\ tokLast[1].result.proof # <<>>
       /\ tokLast[1].result.proof[1].userId = proof[1].userId
       /\ tokLast[1].result.proof[1].nodeId = proof[1].nodeId
       /\ tokLast[1].result.proof[1].proofHash = proof[1].proofHash

C12_Witness ==
    /\ MintedPresented /\ tokLast[1].secret = token[1].secret
    /\ tokLast[1].at = TokenExpiry
    /\ tokLast[1].result.isValid
    /\ tokLast[1].result.proof[1].userId = proof[1].userId

C14_MalformedRejected ==
    (TokenValidated /\ MalformedString(tokLast[1].str))
    => (~tokLast[1].result.isValid
        /\ tokLast[1].result.reason = REASON_TOKEN_FORMAT)

\* C15: a token whose MAC is correct for the secret is rejected with the
\* expired reason when it is validated after its embedded expiresAt and
\* accepted when validated no later; so once it was rejected as expired no
\* later validation accepts it, and an accepted token was acceptable at
\* every earlier time.
C15_ExpiredAtState ==
    (MintedPresented /\ HmacKey(tokLast[1].secret) = HmacKey(token[1].secret))
    => IF TimeLT(TokenExpiry, tokLast[1].at)
       THEN ~tokLast[1].result.isValid
            /\ tokLast[1].result.reason = REASON_TOKEN_EXPIRED
       ELSE tokLast[1].result.isValid

C15_StaysExpired ==
    (tokLast # <<>> /\ tokLast' # <<>>
       /\ tokLast[1].result.reason = REASON_TOKEN_EXPIRED
       /\ tokLast'[1].str = tokLast[1].str)
    => ~tokLast'[1].result.isValid

C15_TokenExpiry == []C15_ExpiredAtState /\ [][C15_StaysExpired]_vars

C15_Witness ==
    /\ MintedPresented /\ tokLast[1].secret = token[1].secret
    /\ TimeLT(TokenExpiry, tokLast[1].at)
    /\ tokLast[1].result.reason = REASON_TOKEN_EXPIRED

\* C16: the payload of a created token has exactly the fields userId, nodeId,
\* timestamp, expiresAt and proofHash (no verifierSignature), and the proof
\* returned by a successful validation has the empty verifierSignature.
C16_NoSignatureInToken ==
    /\ token # <<>> =>
         DOMAIN JsonParse(Split(token[1].minted)[1][1].b64)
             = {"userId", "nodeId", "timestamp", "expiresAt", "proofHash"}
    /\ (tokLast # <<>> /\ tokLast[1].result.isValid)
         => tokLast[1].result.proof[1].verifierSignature = <<>>

C16_Witness ==
    /\ MintedPresented
    /\ tokLast[1].result.isValid
    /\ tokLast[1].result.proof[1].verifierSignature = <<>>
    /\ proof[1].verifierSignature # <<>>

(***************************************************************************)
(* calculateVerificationTrustScore (verification.ts lines 222-242)         *)
(*                                                                         *)
(* A score before rounding is kept exactly, as <<whole points, remainder>> *)
(* with the remainder counted in units of 1/(2 * MsPerDay) of a point, the *)
(* weight of one millisecond of age.  The doubles of the code hold these   *)
(* values to within 2e-14 of a point, far below one unit (5.8e-9), and     *)
(* hold the whole and half points the comparisons and Math.round turn on   *)
(* exactly.                                                                *)
(***************************************************************************)
PointUnits == 2 * MsPerDay

\* lines 223-234: 100 - daysSinceVerification * 0.5, then Math.max(10, .)
ScoreAfterDecayRising(age) ==
    <<100 + (age[1] \div 2), (age[1] % 2) * MsPerDay + age[2]>>
ScoreAfterDecay(age) ==
    LET whole == age[1] \div 2
        part == (age[1] % 2) * MsPerDay + age[2]
        score == IF part = 0 THEN <<100 - whole, 0>>
                             ELSE <<100 - whole - 1, PointUnits - part>>
    IN  IF score[1] < 10 THEN <<10, 0>> ELSE score

\* lines 237-239: daysSinceVerification <= 7
HasRecentBonus(age) == ~DaysDiffGT(age, 7)

\* line 241: Math.round, halves rounded up
MathRound(score) == IF 2 * score[2] >= PointUnits THEN score[1] + 1 ELSE score[1]

calculateVerificationTrustScore(p, now) ==
    LET daysSinceVerification == TimeDiff(now, ParseDate(p.timestamp))
        floored == ScoreAfterDecay(daysSinceVerification)
        score == IF HasRecentBonus(daysSinceVerification)
                 THEN <<floored[1] + 10, floored[2]>> ELSE floored
    IN  MathRound(score)

\* days on which a proof is scored: around its issue, the bonus boundary, the
\* 30 days and the year of the tests, and the age where the floor is reached
ScoreDays == {0, 1, 6, 7, 8, 9, 30, 180, 181, 365}
ScoreClockValues == {Time(d, m) : d \in GenDays \cup ScoreDays, m \in MsValues}

\* time passes
ScoreTick ==
    /\ \E t \in ScoreClockValues :
         /\ TimeLT(clock, t)
         /\ clock' = t
    /\ UNCHANGED <<tokenVars, scores, user_profiles, trust_scores, trustLast>>
    /\ UNCHANGED engineVars
    /\ UNCHANGED storeVars
    /\ UNCHANGED helperVars

\* calculateVerificationTrustScore(proof); the last two results are kept
CalculateScore ==
    /\ proof # <<>>
    /\ LET r == [age |-> TimeDiff(clock, ParseDate(proof[1].timestamp)),
                 score |-> calculateVerificationTrustScore(proof[1], clock)]
       IN  scores' = IF scores = <<>> THEN <<r>> ELSE <<scores[Len(scores)], r>>
    /\ UNCHANGED <<clock, tokenVars, user_profiles, trust_scores, trustLast>>
    /\ UNCHANGED engineVars
    /\ UNCHANGED storeVars
    /\ UNCHANGED helperVars

NextScore ==
    \/ ScoreTick
    \/ CalculateScore

\* a proof has just been generated
SpecScore == InitIssued /\ [][NextScore]_vars

(***************************************************************************)
(* Properties of calculateVerificationTrustScore (checked under SpecScore) *)
(***************************************************************************)
\* C17: every score is an integer from 10 to 100.
C17_ScoreRange ==
    \A i \in DOMAIN scores : scores[i].score \in 10..100

\* C18: a proof scored at the instant of its timestamp (daysSinceVerification
\* = 0) scores exactly 100.
C18_FreshScoreIs100 ==
    \A i \in DOMAIN scores : scores[i].age = <<0, 0>> => scores[i].score = 100

\* C19: of two scores of a proof taken at ages d1 <= d2 that are both beyond
\* 7 days, the later one is not higher; and the score at age 0 is strictly
\* higher than the score at the age of 30 days.
C19_NonIncreasingBeyondBonus ==
    Len(scores) = 2 =>
        /\ (DaysDiffGT(scores[1].age, 7) /\ DaysDiffGT(scores[2].age, 7))
             => scores[1].score >= scores[2].score
        /\ (scores[1].age = <<0, 0>> /\ scores[2].age = <<30, 0>>)
             => scores[1].score > scores[2].score

C19_Witness ==
    /\ Len(scores) = 2
    /\ scores[1].age = <<8, 0>>
    /\ scores[2].age = <<9, 1>>
    /\ scores[1].score > scores[2].score

(***************************************************************************)
(* calculate_trust_score(target_user_id), the PL/pgSQL function of         *)
(* migration 002_create_social.ts (lines 266-331).  The decimal scores     *)
(* are kept in tenths of a point (days * 0.2 has one decimal digit); a     *)
(* value that can be NULL is <<>> or <<v>>.                                *)
(***************************************************************************)
\* follower_count and following_count run over 0..MaxFollows
MaxFollows == 3
\* reports_received runs over 0..MaxReports
MaxReports == 6

Points(n) == n * 10
IsWholePoints(x) == x % 10 = 0

TargetUser == "u1"

\* lines 276-282: COALESCE(EXTRACT(DAY FROM NOW() - MAX(verified_at))::integer, 0)
\* over the valid events of the user; the day field of an interval is
\* truncated toward zero
verification_days(rows, userId, now) ==
    LET mine == {i \in DOMAIN rows : rows[i].user_id = userId /\ rows[i].is_valid}
    IN  IF mine = {} THEN 0
        ELSE LET latest == CHOOSE i \in mine :
                     \A j \in mine : TimeLE(rows[j].verified_at, rows[i].verified_at)
                 diff == TimeDiff(now, rows[latest].verified_at)
             IN  IF diff[1] < 0 /\ diff[2] > 0 THEN diff[1] + 1 ELSE diff[1]

\* line 285: LEAST(40, verification_days * 0.2)
verification_score(days) == IF days * 2 < Points(40) THEN days * 2 ELSE Points(40)

\* lines 288-297: NULL when the user has no row in user_profiles
social_scoreByFollowersOnly(profiles) ==
    IF profiles = <<>> THEN <<>>
    ELSE <<Points(IF profiles[1].follower_count > 2 THEN 30 ELSE 5)>>
social_score(profiles) ==
    IF profiles = <<>> THEN <<>>
    ELSE LET follower_count == profiles[1].follower_count
             following_count == profiles[1].following_count
         IN  <<Points(CASE following_count = 0 -> 0
                        [] following_count # 0 /\ follower_count > 2 * following_count -> 30
                        [] following_count # 0 /\ follower_count <= 2 * following_count
                             /\ follower_count > following_count -> 20
                        [] following_count # 0 /\ follower_count <= following_count
                             /\ 2 * follower_count > following_count -> 10
                        [] OTHER -> 5)>>

\* lines 300-310: the select list has two columns (reports_received and the
\* CASE) and INTO has one target, which PL/pgSQL fills from the first column,
\* ignoring the second; NULL when the user has no row in trust_scores
behavior_score(scoresTable) ==
    IF scoresTable = <<>> THEN <<>> ELSE <<Points(scoresTable[1].reports_received)>>

\* line 313: GREATEST(0, LEAST(100, 50 + v + s + b)); the sum is NULL when a
\* term is NULL, and GREATEST and LEAST ignore NULL arguments
final_score(v, s, b) ==
    IF s = <<>> \/ b = <<>> THEN Points(100)
    ELSE LET total == Points(50) + v + s[1] + b[1]
             least == IF total < Points(100) THEN total ELSE Points(100)
         IN  IF least > 0 THEN least ELSE 0

\* trust_scores row as the table's defaults create it (lines 226-243)
TrustRow(userId, reports_received) ==
    [user_id |-> userId, base_score |-> Points(50), verification_score |-> 0,
     social_score |-> 0, behavior_score |-> 0, final_score |-> Points(50),
     days_verified |-> 0, reports_received |-> reports_received,
     last_calculated_at |-> Time(0, 0)]

TrustDays == {0, 1, 5, 200, 201}
TrustClockValues == {Time(d, 0) : d \in TrustDays}

\* time passes
TrustTick ==
    /\ \E t \in TrustClockValues :
         /\ TimeLT(clock, t)
         /\ clock' = t
    /\ UNCHANGED <<tokenVars, scores, user_profiles, trust_scores, trustLast>>
    /\ UNCHANGED engineVars
    /\ UNCHANGED storeVars
    /\ UNCHANGED helperVars

\* SELECT calculate_trust_score(target_user_id).  Lines 316-329: the columns
\* social_score, behavior_score and final_score are NOT NULL, so the INSERT
\* raises and stores nothing when a component is NULL; otherwise the row of
\* the user is written (ON CONFLICT DO UPDATE keeps the other columns)
CalculateTrustScore ==
    /\ LET days == verification_days(events, TargetUser, clock)
           v == verification_score(days)
           s == social_score(user_profiles)
           b == behavior_score(trust_scores)
           final == final_score(v, s, b)
       IN  IF s = <<>> \/ b = <<>>
           THEN /\ trustLast' = <<[stored |-> FALSE, at |-> clock]>>
                /\ trust_scores' = trust_scores
           ELSE /\ trustLast' = <<[stored |-> TRUE, at |-> clock]>>
                /\ trust_scores' =
                     <<[(IF trust_scores = <<>> THEN TrustRow(TargetUser, 0)
                                                ELSE trust_scores[1])
                        EXCEPT !.verification_score = v,
                               !.social_score = s[1],
                               !.behavior_score = b[1],
                               !.final_score = final,
                               !.days_verified = days,
                               !.last_calculated_at = clock]>>
    /\ UNCHANGED <<clock, tokenVars, scores, user_profiles>>
    /\ UNCHANGED engineVars
    /\ UNCHANGED storeVars
    /\ UNCHANGED helperVars

\* a user after a ceremony (of this user or of another one), with or without
\* a profile row and a trust_scores row
InitTrust ==
    /\ clock \in {t \in ClockValues : t[1] \in GenDays}
    /\ \E c \in CeremonyInputs :
         LET sk == KeyBytes(1)
             p == generateVerificationProof(c, Base64Encode(sk), clock, clock)
         IN  events = <<EventRow(c.userId, c.nodeId, p, FALSE)>>
    /\ nodes = <<>> /\ audit = <<>> /\ trx = <<>> /\ call = <<>>
    /\ InitEngineIdle
    /\ token = <<>> /\ tokLast = <<>> /\ scores = <<>> /\ trustLast = <<>>
    /\ keyStore = <<>> /\ keyLast = <<>> /\ possession = <<>> /\ timing = <<>>
    /\ user_profiles \in {<<>>} \cup
         {<<[user_id |-> TargetUser, follower_count |-> a, following_count |-> b]>> :
             a \in 0..MaxFollows, b \in 0..MaxFollows}
    /\ trust_scores \in {<<>>} \cup {<<TrustRow(TargetUser, r)>> : r \in 0..MaxReports}

NextTrust ==
    \/ TrustTick
    \/ CalculateTrustScore

SpecTrust == InitTrust /\ [][NextTrust]_vars

(***************************************************************************)
(* Properties of calculate_trust_score (checked under SpecTrust)           *)
(***************************************************************************)
TrustStored == trustLast # <<>> /\ trustLast[1].stored /\ trustLast[1].at = clock

\* C20: the final score a call stores equals clamp(50 + verification +
\* social + behavior, 0, 100) of the components stored with it, and is a
\* whole number of points from 0 to 100.
C20_FinalScoreClampedInteger ==
    TrustStored =>
        LET row == trust_scores[1]
            total == Points(50) + row.verification_score + row.social_score
                         + row.behavior_score
        IN  /\ row.final_score =
                 (IF total > Points(100) THEN Points(100)
                  ELSE IF total < 0 THEN 0 ELSE total)
            /\ row.final_score \in 0..Points(100)
            /\ IsWholePoints(row.final_score)

\* C21: the verification component stored by the aggregation does not grow
\* as the verification gets older: of two successive stored calculations for
\* the same events, the later one has no higher verification_score.
C21_VerificationStep ==
    (trustLast # <<>> /\ trustLast[1].stored /\ trustLast' # <<>> /\ trustLast'[1].stored
       /\ events' = events /\ user_profiles' = user_profiles)
    => trust_scores'[1].verification_score <= trust_scores[1].verification_score

C21_VerificationNotGrowing == [][C21_VerificationStep]_vars

\* C22: the stored social component is 0 whenever following_count = 0;
\* otherwise 30 when followers/following > 2, 20 when > 1, 10 when > 0.5 and
\* 5 in every other case.
C22_SocialComponent ==
    TrustStored =>
        LET followers == user_profiles[1].follower_count
            following == user_profiles[1].following_count
        IN  trust_scores[1].social_score =
              Points(IF following = 0 THEN 0
                     ELSE IF followers > 2 * following THEN 30
                     ELSE IF followers > following THEN 20
                     ELSE IF 2 * followers > following THEN 10
                     ELSE 5)

C22_Witness ==
    /\ TrustStored
    /\ user_profiles[1].following_count = 0
    /\ user_profiles[1].follower_count = MaxFollows
    /\ trust_scores[1].social_score = 0

\* C23: the stored behavior component is 30 for 0 reports received, 20 for 1
\* or 2, 10 for 3 to 5 and -10 for every count above 5.
C23_BehaviorComponent ==
    TrustStored =>
        LET reports_received == trust_scores[1].reports_received
        IN  trust_scores[1].behavior_score =
              (IF reports_received = 0 THEN Points(30)
               ELSE IF reports_received <= 2 THEN Points(20)
               ELSE IF reports_received <= 5 THEN Points(10)
               ELSE 0 - Points(10))


(***************************************************************************)
(* NodeKeyManager: a private key encrypted under a password                *)
(***************************************************************************)
\* lines 66-77: pbkdf2Sync(password, keySalt, 100000, 32, 'sha256'); PBKDF2
\* keys HMAC-SHA256 with the password, so that the derived key depends on
\* the password only through HmacKey; the caller supplies the salt, its own
\* random 32 bytes where the code draws them at line 70
deriveKey(password, salt) ==
    [key |-> [pbkdf2 |-> <<HmacKey(password), salt>>], salt |-> salt]

\* createCipher('aes-256-ctr', key) and createDecipher('aes-256-ctr', key):
\* both derive the cipher key and the counter block from the key argument
\* alone and combine the data with the resulting key stream, so that a
\* second application under the same key removes the first; the mode has no
\* padding and no authentication, update and final accept every input
AesCtrOneWay(key, data) == [pads |-> data.pads \cup {key}, bytes |-> data.bytes]
AesCtr(key, data) ==
    [pads |-> (data.pads \ {key}) \cup ({key} \ data.pads), bytes |-> data.bytes]

\* lines 82-100, with the random salt and iv of lines 87-88 as arguments;
\* the iv is returned but never handed to the cipher
encryptPrivateKey(privateKey, password, keySalt, iv) ==
    LET derived == deriveKey(password, keySalt)
        encrypted == AesCtr(derived.key, [pads |-> {}, bytes |-> privateKey])
    IN  [encrypted |-> Base64Encode(encrypted),
         salt |-> Base64Encode(derived.salt),
         iv |-> Base64Encode(iv)]

\* lines 105-122: the bytes the decipher produced are returned as they are;
\* the catch of line 119 is the only place that raises the decryption error
decryptPrivateKey(encrypted, salt, password) ==
    LET derived == deriveKey(password, Base64Decode(salt))
        ciphertext == Base64Decode(encrypted)
        decrypted == AesCtr(derived.key, ciphertext)
    IN  [value |-> IF decrypted.pads = {} THEN decrypted.bytes ELSE decrypted]

\* a key pair's private key is encrypted under a password
EncryptKey ==
    /\ \E sk \in PrivateKeys, password \in Secrets, n \in 1..MaxKeys, m \in 1..MaxKeys :
          keyStore' = <<[privateKey |-> sk, password |-> password,
                         blob |-> encryptPrivateKey(sk, password, KeyBytes(n),
                                                    [seed |-> m, gen |-> 0, len |-> 16])]>>
    /\ keyLast' = <<>>
    /\ UNCHANGED <<clock, engineVars, storeVars, tokenVars, scorerVars, possession, timing>>

\* the stored key, as it is or corrupted, is decrypted under some password
DecryptKey ==
    /\ keyStore # <<>>
    /\ \E password \in Secrets, corrupt \in BOOLEAN :
          LET blob == keyStore[1].blob
              ciphertext == Base64Decode(blob.encrypted)
              \* the stored ciphertext with one bit flipped
              flipped == Base64Encode([pads |-> ciphertext.pads \cup {[flip |-> 1]},
                                       bytes |-> ciphertext.bytes])
              encrypted == IF corrupt THEN flipped ELSE blob.encrypted
          IN  keyLast' = <<[encrypted |-> encrypted, salt |-> blob.salt,
                            password |-> password,
                            outcome |-> decryptPrivateKey(encrypted, blob.salt, password)]>>
    /\ UNCHANGED <<clock, engineVars, storeVars, tokenVars, scorerVars, keyStore, possession, timing>>

NextKeys == EncryptKey \/ DecryptKey

SpecKeys == Init /\ [][NextKeys]_vars

\* the outcome the catch of line 120 would produce
DecryptionError == [error |-> "Failed to decrypt private key - invalid password"]

\* C24: decryptPrivateKey under a password other than the one the key was
\* encrypted with, or over a corrupted ciphertext, fails with the decryption
\* error and returns no value
C24_WrongPasswordFails ==
    (keyLast # <<>>
       /\ (keyLast[1].password # keyStore[1].password
             \/ keyLast[1].encrypted # keyStore[1].blob.encrypted))
    => keyLast[1].outcome = DecryptionError

\* C25: decryptPrivateKey over the ciphertext and salt encryptPrivateKey
\* returned, under the same password, returns the original private key
C25_KeyRoundTrip ==
    (keyLast # <<>>
       /\ keyLast[1].encrypted = keyStore[1].blob.encrypted
       /\ keyLast[1].salt = keyStore[1].blob.salt
       /\ keyLast[1].password = keyStore[1].password)
    => keyLast[1].outcome = [value |-> keyStore[1].privateKey]

C25_Witness ==
    /\ keyLast # <<>>
    /\ keyLast[1].encrypted = keyStore[1].blob.encrypted
    /\ keyLast[1].password = keyStore[1].password
    /\ keyLast[1].outcome = [value |-> KeyBytes(MaxKeys)]


(***************************************************************************)
(* Frame properties of the service (checked under SpecService)             *)
(***************************************************************************)
\* C26: verification events are append-only: no step of the service removes
\* an event, and a step changes an event at most by turning is_valid from
\* TRUE to FALSE, never back
C26_EventsStep ==
    /\ Len(events') >= Len(events)
    /\ \A i \in DOMAIN events :
         \/ events'[i] = events[i]
         \/ /\ events[i].is_valid
            /\ events'[i] = [events[i] EXCEPT !.is_valid = FALSE]

C26_AppendOnly == [][C26_EventsStep]_vars

C26_Witness ==
    /\ Len(events) >= 2
    /\ ~events[1].is_valid
    /\ [events[1] EXCEPT !.is_valid = TRUE] = EarlierCeremonyEvent
    /\ \E c \in Calls : Succeeded(c, "renew")

\* the step in which ceremony c commits and returns success
CeremonySucceeds(c) ==
    /\ call[c].op = "ceremony" /\ call[c].pc = "commit"
    /\ call'[c].pc = "returned" /\ call'[c].result[1].success

\* C27: no step of a ceremony, a renewal, a proof validation or a statistics
\* call changes a node's public key; the step in which a ceremony succeeds
\* adds one to the counter of its node and changes nothing else of the
\* nodes, and every other step, those of renewals included, leaves the
\* nodes as they are
C27_NodesStep ==
    /\ DOMAIN nodes' = DOMAIN nodes
    /\ \A n \in DOMAIN nodes : nodes'[n].public_key = nodes[n].public_key
    /\ \A c \in Calls :
         CeremonySucceeds(c) =>
            nodes' = [nodes EXCEPT ![call[c].req[1].nodeId].verification_count = @ + 1]
    /\ (\A c \in Calls : ~CeremonySucceeds(c)) => nodes' = nodes

C27_NodeFrame == [][C27_NodesStep]_vars

C27_Witness ==
    /\ \E c \in Calls : Succeeded(c, "ceremony") /\ call[c].req[1].nodeId = "n1"
    /\ \E c \in Calls : Succeeded(c, "renew") /\ call[c].req[1].nodeId = "n1"
    /\ nodes = [NodeRows EXCEPT !["n1"].verification_count = 2]


\* what a ceremony is given and must not keep: the raw document fields, the
\* raw biometric data and the hash of the biometric data
SensitiveStrings ==
    UNION {{r.documentNumber, r.fullName, r.dateOfBirth}
              \cup {r.biometricData[k] : k \in DOMAIN r.biometricData} :
           r \in CeremonyRequests \cup {EarlierRequest}}
BiometricHashes ==
    {hashBiometricData(r.biometricData[1]) :
        r \in {q \in CeremonyRequests : q.biometricData # <<>>}}

\* the proofs the calls returned
ReturnedProofs ==
    {call[c].result[1].proof[1] :
        c \in {d \in Calls : Succeeded(d, "ceremony") \/ Succeeded(d, "renew")}}

\* C28: no verification event, no audit entry and no returned proof has a
\* field that holds the raw biometric data, the biometric hash, the document
\* number, the full name or the date of birth: the rows and the proof have
\* their own columns only, their texts are none of the sensitive texts and
\* their hashes are not the biometric hash
C28_NothingSensitiveKept ==
    /\ \A i \in DOMAIN events :
         LET e == events[i]
         IN  /\ DOMAIN e = {"user_id", "node_id", "proof_hash", "node_signature",
                            "verified_at", "expires_at", "is_valid", "metadata"}
             /\ DOMAIN e.metadata = {"version", "operatorId", "renewal"}
             /\ {e.user_id, e.node_id, e.metadata.version, e.metadata.operatorId}
                  \cap SensitiveStrings = {}
             /\ e.proof_hash \notin BiometricHashes
             /\ DOMAIN Base64Decode(e.node_signature) = {"by", "over"}
    /\ \A i \in DOMAIN audit :
         LET a == audit[i]
         IN  /\ DOMAIN a = {"user_id", "action", "resource_type", "resource_id", "metadata"}
             /\ DOMAIN a.metadata = {"node_id", "operator_id", "document_type"}
             /\ {a.user_id, a.action, a.resource_type, a.resource_id, a.metadata.node_id,
                 a.metadata.operator_id, a.metadata.document_type}
                  \cap SensitiveStrings = {}
    /\ \A p \in ReturnedProofs :
         /\ DOMAIN p = {"userId", "nodeId", "timestamp", "verifierSignature",
                        "proofHash", "expiresAt", "metadata"}
         /\ DOMAIN p.metadata = {"version", "operatorId"}
         /\ {p.userId, p.nodeId, p.metadata.version, p.metadata.operatorId}
              \cap SensitiveStrings = {}
         /\ p.proofHash \notin BiometricHashes
         /\ DOMAIN Base64Decode(p.verifierSignature) = {"by", "over"}

C28_Witness ==
    \E c \in Calls :
        /\ Succeeded(c, "ceremony")
        /\ call[c].req[1].biometricData # <<>>
        /\ call[c].req[1].documentNumber \in SensitiveStrings
        /\ call[c].eventId \in DOMAIN events
        /\ events[call[c].eventId].user_id = call[c].result[1].userId
        /\ AuditEntriesOf(call[c].result[1].userId) # {}


(***************************************************************************)
(* The validators on malformed input, and the proof of possession          *)
(***************************************************************************)
\* an exception raised inside a try block
Thrown == [threw |-> TRUE]

\* try { ... } catch (error) { return { isValid: false, reason: ... } }
\* (lines 82, 113-115): what the block returned, or what the catch returns
CatchValidationRethrow(outcome, caught) == outcome
CatchValidation(outcome, caught) == IF outcome = Thrown THEN caught ELSE outcome

\* validateVerificationProof (lines 82-115) with a public key that has not
\* 32 bytes (a placeholder of the seed file, or a text that is no base64 and
\* decodes to nothing) or a signature that has not 64 bytes (the empty
\* signature of a proof taken from a token): ed25519.verify rejects both,
\* some builds by throwing and some by returning false
ValidateMalformed ==
    /\ proof # <<>>
    /\ last = <<>>
    /\ \E pk \in {Base64Encode(kp.publicKey) : kp \in NodeKeyPairs}
                   \cup {PlaceholderKey, Base64Encode([seed |-> 0, gen |-> 0, len |-> 0])},
          sig \in {proof[1].verifierSignature, Base64Encode([seed |-> 0, gen |-> 0, len |-> 0])},
          verifyThrows \in BOOLEAN :
         LET p == [proof[1] EXCEPT !.verifierSignature = sig]
             outcome ==
                 IF IsExpired(p, clock)
                 THEN ValidationResult(pk, clock, clock, FALSE, REASON_EXPIRED)
                 ELSE IF verifyThrows
                 THEN Thrown
                 ELSE ValidationResult(pk, clock, clock, FALSE, REASON_SIGNATURE)
         IN  /\ Base64Decode(pk).len # 32 \/ DOMAIN Base64Decode(sig) # {"by", "over"}
             /\ last' = <<CatchValidation(
                            outcome,
                            ValidationResult(pk, clock, clock, FALSE, "Validation error"))>>
    /\ UNCHANGED <<clock, genPc, genCall, issued, proof, valCall>>
    /\ UNCHANGED storeVars
    /\ UNCHANGED <<tokenVars, scorerVars, helperVars>>

\* validateProofToken (lines 154-190) on strings that are no token: a
\* payload that is no base64 or no JSON under a signature made with the
\* server's secret or another one, a string without separator, the empty
\* string
ValidateMalformedToken ==
    /\ tokLast = <<>>
    /\ \E secretKey \in Secrets, madeWith \in Secrets,
          payloadString \in {PlainText("%%%"), Base64Text(KeyBytes(1)), <<>>},
          signed \in BOOLEAN :
         LET str == IF signed
                    THEN payloadString \o <<Dot>>
                           \o Base64Text(HmacSha256(madeWith, payloadString))
                    ELSE payloadString
         IN  tokLast' = <<[str |-> str, secret |-> secretKey, at |-> clock,
                           result |-> validateProofToken(str, secretKey, clock)]>>
    /\ UNCHANGED <<clock, token, scorerVars, helperVars>>
    /\ UNCHANGED engineVars
    /\ UNCHANGED storeVars

\* lines 203-217; createHmac, update and digest accept every string, and
\* whatever they could throw ends in the catch of line 214, which returns
\* false
verifyPossessionProofAnyChallenge(challenge, response, userProofHash) ==
    \E n \in 1..MaxKeys :
        response = Base64Text(HmacSha256(userProofHash, Base64Text(KeyBytes(n))))
verifyPossessionProof(challenge, response, userProofHash) ==
    LET expectedResponse == Base64Text(HmacSha256(userProofHash, challenge))
    IN  response = expectedResponse

\* a challenge of generateChallenge (lines 196-198: 32 random bytes in
\* base64), answered with the HMAC of some challenge under some proof hash,
\* with a text that is no HMAC, or with nothing
VerifyPossession ==
    /\ proof # <<>>
    /\ possession = <<>>
    /\ LET challenges == {Base64Text(KeyBytes(n)) : n \in 1..MaxKeys}
           hashes == {proof[1].proofHash, Sha256Hex(<<"test_proof_hash">>)}
           responses == {Base64Text(HmacSha256(h, ch)) : h \in hashes, ch \in challenges}
                          \cup {PlainText("invalid_response"), <<>>}
       IN  \E challenge \in challenges, userProofHash \in hashes, response \in responses :
             possession' = <<[challenge |-> challenge, response |-> response,
                              userProofHash |-> userProofHash,
                              result |-> verifyPossessionProof(challenge, response,
                                                               userProofHash)]>>
    /\ UNCHANGED <<clock, tokenVars, scorerVars, keyStore, keyLast, timing>>
    /\ UNCHANGED engineVars
    /\ UNCHANGED storeVars

\* one call of each operation, in any order
NextInputs == ValidateMalformed \/ ValidateMalformedToken \/ VerifyPossession

SpecInputs == InitIssued /\ [][NextInputs]_vars

\* C29: on a malformed key, a malformed signature, a payload that is no
\* base64 or no JSON, validateVerificationProof and validateProofToken
\* return a result with isValid = FALSE and a reason; nothing is thrown
C29_MalformedInputRejected ==
    /\ last # <<>> =>
         /\ "isValid" \in DOMAIN last[1]
         /\ ~last[1].isValid
         /\ last[1].reason \in {REASON_EXPIRED, REASON_SIGNATURE, "Validation error"}
    /\ tokLast # <<>> =>
         /\ "isValid" \in DOMAIN tokLast[1].result
         /\ ~tokLast[1].result.isValid
         /\ tokLast[1].result.reason
              \in {REASON_TOKEN_FORMAT, REASON_TOKEN_SIGNATURE, REASON_TOKEN_ERROR}

C29_Witness ==
    /\ last # <<>>
    /\ last[1].reason = "Validation error"
    /\ last[1].pk = PlaceholderKey
    /\ tokLast # <<>>
    /\ tokLast[1].result.reason = REASON_TOKEN_ERROR

\* C30: verifyPossessionProof returns TRUE exactly when the response is the
\* base64 HMAC-SHA256 of the challenge keyed by the proof hash, and FALSE
\* for every other response
C30_PossessionExact ==
    possession # <<>> =>
        /\ possession[1].result \in BOOLEAN
        /\ possession[1].result
             = (possession[1].response
                  = Base64Text(HmacSha256(possession[1].userProofHash,
                                          possession[1].challenge)))

C30_Witness ==
    /\ possession # <<>>
    /\ possession[1].result
    /\ possession[1].userProofHash = proof[1].proofHash
    /\ possession[1].challenge = Base64Text(KeyBytes(MaxKeys))


(***************************************************************************)
(* generateProofHash on an object whose fields come in some order          *)
(***************************************************************************)
\* Array.prototype.sort on the keys of a proof payload: the rank of a key
\* in the order of its UTF-16 code units
KeyRank(k) ==
    CASE k = "biometricHash" -> 1 [] k = "documentHash" -> 2 [] k = "expiresAt" -> 3
      [] k = "nodeId" -> 4 [] k = "operatorId" -> 5 [] k = "timestamp" -> 6
      [] k = "userId" -> 7 [] k = "version" -> 8

\* Object.keys(proofData).sort() (line 122); an object is the sequence of
\* its [k, v] entries in the order they were added
ObjectKeysUnsorted(obj) == [i \in DOMAIN obj |-> obj[i].k]
ObjectKeysSorted(obj) ==
    LET keys == {obj[i].k : i \in DOMAIN obj}
    IN  [r \in 1..Cardinality(keys) |->
            CHOOSE k \in keys :
                Cardinality({j \in keys : KeyRank(j) < KeyRank(k)}) = r - 1]

\* JSON.stringify(obj, keys) with an array of keys (line 122): the entries
\* of the object that the array names, in the order of the array
JsonStringifyKeys(obj, keys) ==
    [r \in DOMAIN keys |-> obj[CHOOSE i \in DOMAIN obj : obj[i].k = keys[r]]]

\* the entries of the payload of lines 39-48 in the order of the literal,
\* and the same entries added in another order
PayloadLiteral(q) ==
    <<[k |-> "version", v |-> q.version], [k |-> "userId", v |-> q.userId],
      [k |-> "nodeId", v |-> q.nodeId], [k |-> "timestamp", v |-> q.timestamp],
      [k |-> "expiresAt", v |-> q.expiresAt], [k |-> "documentHash", v |-> q.documentHash],
      [k |-> "biometricHash", v |-> q.biometricHash], [k |-> "operatorId", v |-> q.operatorId]>>
FieldOrders ==
    {<<1, 2, 3, 4, 5, 6, 7, 8>>, <<8, 7, 6, 5, 4, 3, 2, 1>>,
     <<4, 5, 6, 7, 8, 1, 2, 3>>, <<2, 1, 4, 3, 6, 5, 8, 7>>}

\* the payload the issued proof was made from, and the proof the same call
\* returns for other ceremony data at the same clock reads
IssuedPayload(c) ==
    [version |-> PROOF_VERSION, userId |-> c.userId, nodeId |-> c.nodeId,
     timestamp |-> issued[1].proof.timestamp, expiresAt |-> issued[1].proof.expiresAt,
     documentHash |-> c.documentHash, biometricHash |-> c.biometricHash,
     operatorId |-> c.operatorId]
ProofFor(c) ==
    generateVerificationProof(c, Base64Encode(issued[1].sk),
                              ParseDate(issued[1].proof.timestamp),
                              AddDaysMs(ParseDate(issued[1].proof.expiresAt),
                                        0 - VALIDITY_DAYS))

\* the proof has just been returned and nothing has been done with it
JustIssued ==
    /\ issued # <<>>
    /\ proof = <<issued[1].proof>>
    /\ valCall = <<>>
    /\ last = <<>>
    /\ TimeLE(clock, Time(ParseDate(issued[1].proof.timestamp)[1], MaxMs))

\* C31: proofs made with the same node key for ceremony data that differ in
\* userId differ in proofHash and in signature, and the hash of a payload is
\* the hash of its entries in sorted key order, in whatever order the
\* entries were added
C31_HashDistinctAndOrderFree ==
    JustIssued =>
        \A c \in {d \in CeremonyInputs : d.userId = issued[1].proof.userId} :
            /\ ProofFor(c) = issued[1].proof
            /\ \A c2 \in CeremonyInputs :
                 c2.userId # c.userId =>
                    /\ ProofFor(c2).proofHash # issued[1].proof.proofHash
                    /\ ProofFor(c2).verifierSignature # issued[1].proof.verifierSignature
            /\ \A order \in FieldOrders :
                 LET literal == PayloadLiteral(IssuedPayload(c))
                     obj == [i \in 1..8 |-> literal[order[i]]]
                     entries == JsonStringifyKeys(obj, ObjectKeysSorted(obj))
                 IN  /\ [r \in DOMAIN entries |-> KeyRank(entries[r].k)]
                           = <<1, 2, 3, 4, 5, 6, 7, 8>>
                     /\ Sha256Hex([r \in DOMAIN entries |-> entries[r].v])
                           = issued[1].proof.proofHash

C31_Witness ==
    /\ JustIssued
    /\ issued[1].proof.userId = "u2"
    /\ issued[1].sk = KeyBytes(MaxKeys)
    /\ ProofFor([userId |-> "u1", nodeId |-> "n1", documentHash |-> Sha256Hex(<<"d1">>),
                 biometricHash |-> Sha256Hex(<<"b1">>), operatorId |-> "op1"]).proofHash
         # issued[1].proof.proofHash


(***************************************************************************)
(* The comparison of the MACs in validateProofToken                        *)
(***************************************************************************)
\* digest('base64') of the 32 bytes of an HMAC-SHA256: 44 characters
MAC_CHARS == 44

\* line 165, signature !== expectedSignature, on two strings of MAC_CHARS
\* characters that agree in their first `agree` characters: the number of
\* character pairs the engine looks at.  The language leaves the procedure
\* open: an engine may stop at the first pair that differs or look at all
\* of them
StrictNotEqualSteps(agree, stopsAtDifference) ==
    IF stopsAtDifference /\ agree < MAC_CHARS THEN agree + 1 ELSE MAC_CHARS

\* validateProofToken on payload.guess, the guess a string of the length of
\* the MAC that agrees with the MAC of the payload in its first characters
CompareMacs ==
    /\ \E secretKey \in Secrets, agree \in 0..MAC_CHARS, stopsAtDifference \in BOOLEAN :
         timing' = <<[secret |-> secretKey, agree |-> agree,
                      differ |-> (agree < MAC_CHARS),
                      steps |-> StrictNotEqualSteps(agree, stopsAtDifference)]>>
    /\ UNCHANGED <<clock, tokenVars, scorerVars, keyStore, keyLast, possession>>
    /\ UNCHANGED engineVars
    /\ UNCHANGED storeVars

NextCompare == CompareMacs

SpecCompare == Init /\ [][NextCompare]_vars

\* C32: the comparison of the received MAC with the recomputed one takes the
\* same number of steps however many leading characters of the two agree
C32_ConstantTimeCompare ==
    timing # <<>> => timing[1].steps = MAC_CHARS


(***************************************************************************)
(* Failure and progress of the service calls (checked under SpecService)   *)
(***************************************************************************)
\* the step in which call c of operation op returns a failure
ReturnsFailure(c, op) ==
    /\ call[c].op = op /\ Running(c)
    /\ call'[c].pc = "returned" /\ ~call'[c].result[1].success

\* C33: a renewVerification that does not succeed leaves the store as it
\* was: the step in which it returns its failure changes no row, no step
\* but the commit of a successful call changes a row at all, and a user who
\* has an active event has one after every step
C33_FailedRenewalStep ==
    /\ \A c \in Calls :
         ReturnsFailure(c, "renew") =>
            /\ events' = events /\ nodes' = nodes /\ audit' = audit
            /\ trx'[c] = NoTrx
    /\ events' # events => \E c \in Calls : CeremonySucceeds(c) \/ RenewalSucceeds(c)
    /\ \A u \in UserIds :
         ValidRowsOfUser(events, u) # {} => ValidRowsOfUser(events', u) # {}

C33_FailedRenewalKeepsStore == [][C33_FailedRenewalStep]_vars

C33_Witness ==
    \E c \in Calls :
        /\ IsReturned(c, "renew")
        /\ call[c].result[1].error = ERR_RENEWAL
        /\ call[c].req[1].nodeId = "n3"
        /\ ValidRowsOfUser(events, call[c].req[1].userId) = {1}
        /\ Len(events) = 1


\* the positions of a ceremony in the order of the code, and the step from
\* one to the next
CeremonyOrder ==
    <<"idle", "getNode", "insertEvent", "incrementCount", "insertAudit", "commit", "returned">>
CeremonyAdvances(from, to) ==
    \E k \in 1..(Len(CeremonyOrder) - 1) : CeremonyOrder[k] = from /\ CeremonyOrder[k + 1] = to
HasWritten(t) == t.inserted # <<>> \/ t.counted # <<>> \/ t.audited # <<>>

C34_CeremonyStep ==
    \A c \in Calls :
        (call'[c].op = "ceremony" /\ call'[c] # call[c]) =>
            \* the next position in the order, or the return of a failure
            /\ \/ CeremonyAdvances(call[c].pc, call'[c].pc)
               \/ call'[c].pc = call[c].pc /\ Running(c)
               \/ Running(c) /\ call'[c].pc = "returned" /\ ~call'[c].result[1].success
            \* completion comes from the commit only, with the rows written
            /\ (call'[c].pc = "returned" /\ call'[c].result[1].success) =>
                  /\ call[c].pc = "commit"
                  /\ Len(events') = Len(events) + 1
                  /\ Len(audit') = Len(audit) + 1
            \* a rejected ceremony has written nothing
            /\ ReturnsFailure(c, "ceremony") =>
                  /\ events' = events /\ nodes' = nodes /\ audit' = audit
                  /\ trx'[c] = NoTrx

C34_CeremonyState ==
    \A c \in Calls :
        call[c].op = "ceremony" =>
            \* no write before both gates have passed
            /\ call[c].pc = "getNode" => ~HasWritten(trx[c])
            \* a ceremony that has ended has returned a result and writes no more
            /\ call[c].pc = "returned" => call[c].result # <<>> /\ trx[c] = NoTrx

IssuersOf(proofData, userId) ==
    {d \in Calls :
        /\ Succeeded(d, "ceremony") \/ Succeeded(d, "renew")
        /\ proofData = JsonStringify(call[d].result[1].proof[1])
        /\ userId = call[d].result[1].userId
        /\ call[d].eventId \in DOMAIN events
        /\ events[call[d].eventId].is_valid
        /\ ~TimeLT(events[call[d].eventId].expires_at, clock)}

\* C35: the service's validateVerificationProof accepts, for the user it
\* was issued to, a proof that a successful ceremony or renewal returned,
\* as long as the proof is unexpired and its event has not been invalidated
C35_ReturnedProofAccepted ==
    \A v \in Calls :
        (/\ IsReturned(v, "validate")
         /\ IssuersOf(call[v].req[1].proofData, call[v].req[1].userId) # {})
        => call[v].result[1].isValid

\* C36: validateVerificationProof accepts a proof only if its fields are
\* the ones the node signed: a proof whose expiresAt (or userId, nodeId,
\* timestamp) was changed after it was issued, with proofHash and
\* verifierSignature kept, is rejected
C36_TamperedProofRejected ==
    (last # <<>> /\ issued # <<>> /\ proof # <<issued[1].proof>>)
    => ~last[1].isValid

\* the step in which call v validates a proof and returns its verdict
Validates(v) == call[v].pc = "idle" /\ call'[v].op = "validate"

\* the rows of the user a renewal invalidated or found invalid, that is the
\* rows of the proofs issued to the user before the renewal's own
PreviousRowsOf(userId) == {i \in DOMAIN events : events[i].user_id = userId}

\* C37: when a renewal for a user succeeds, every event the user had before
\* is invalid and stays invalid, the event of the renewal's proof is the
\* only active one, and from then on the service's validateVerificationProof
\* accepts no proof of that user whose event is one of the previous ones
C37_RenewalStep ==
    /\ \A c \in Calls :
         RenewalSucceeds(c) =>
            /\ \A i \in PreviousRowsOf(call[c].req[1].userId) : ~events'[i].is_valid
            /\ ValidRowsOfUser(events', call[c].req[1].userId) = {call'[c].eventId}
    /\ \A i \in DOMAIN events : ~events[i].is_valid => ~events'[i].is_valid
    /\ \A v \in Calls :
         (Validates(v) /\ call'[v].result[1].isValid) =>
            \E i \in ValidRowsOfUser(events, call'[v].req[1].userId) :
                events[i].proof_hash = JsonParse(call'[v].req[1].proofData).proofHash

C37_PreviousProofRejected == [][C37_RenewalStep]_vars

\* C38: the service's validateVerificationProof accepts a proof only when an
\* active event of the user named in the call stores the proof's hash and
\* node id; a proof it accepts for the user it was issued to, it rejects
\* when the call names any other user
C38_ValidateStep ==
    \A v \in Calls :
        Validates(v) =>
            LET r == call'[v].req[1]
                verdict == call'[v].result[1]
            IN  /\ verdict.isValid =>
                     \E i \in DOMAIN events :
                         /\ events[i].user_id = r.userId
                         /\ events[i].node_id = JsonParse(r.proofData).nodeId
                         /\ events[i].proof_hash = JsonParse(r.proofData).proofHash
                         /\ events[i].is_valid
                /\ (IsJson(r.proofData) /\ JsonParse(r.proofData).userId # r.userId)
                     => ~verdict.isValid

C38_ProofBoundToUser == [][C38_ValidateStep]_vars

C38_Witness ==
    \E v, w \in Calls :
        /\ IsReturned(v, "validate") /\ IsReturned(w, "validate")
        /\ call[v].req[1].proofData = call[w].req[1].proofData
        /\ call[v].req[1].userId = "u1" /\ call[v].result[1].isValid
        /\ call[w].req[1].userId = "u2"
        /\ call[w].result[1] = [isValid |-> FALSE,
                                 reason |-> "Verification event not found in database"]

\* the events of initial ceremonies at a node that were in the store at the
\* start
EarlierCeremoniesAt(nodeId) ==
    {i \in DOMAIN events :
        /\ [events[i] EXCEPT !.is_valid = TRUE] = EarlierCeremonyEvent
        /\ events[i].node_id = nodeId}

\* C39: each node's verification_count is the number of initial ceremonies
\* at that node that committed with success: ceremonies that were rejected
\* or failed and renewals, successful or not, add nothing to any counter,
\* and the audit log has one entry for each such ceremony and none for a
\* renewal
C39_CountIsCeremonies ==
    /\ \A n \in DOMAIN nodes :
         nodes[n].verification_count =
            Cardinality({c \in Calls : Succeeded(c, "ceremony") /\ call[c].req[1].nodeId = n})
            + Cardinality(EarlierCeremoniesAt(n))
    /\ Len(audit) =
            Cardinality({c \in Calls : Succeeded(c, "ceremony")})
            + Cardinality(UNION {EarlierCeremoniesAt(n) : n \in DOMAIN nodes})
    /\ \A i \in DOMAIN audit : audit[i].action = "verification_ceremony"

C39_Witness ==
    /\ \E c \in Calls :
         /\ IsReturned(c, "ceremony") /\ call[c].req[1].nodeId = "n1"
         /\ call[c].result[1].error = ERR_CEREMONY
    /\ \E c \in Calls : Succeeded(c, "renew") /\ call[c].req[1].nodeId = "n1"
    /\ nodes["n1"].verification_count = 1
    /\ Len(events) = 2
    /\ Len(audit) = 1

=============================================================================
